---- MODULE Spec2Model ----
(***************************************************************************)
(* Three Django projects of the repository, each with tables of its own.   *)
(*                                                                         *)
(* The book catalogue API of advanced-api-project: the Author and Book     *)
(* tables, BookSerializer and its publication-year validator, and the five *)
(* generic views of api/views.py (list, detail, create, update, delete)    *)
(* with their permission classes and filter backends.                      *)
(*                                                                         *)
(* relationship_app of LibraryProject: User and UserProfile, the post_save *)
(* receivers that keep a profile per user, and the role-gated views.       *)
(*                                                                         *)
(* social_media_api: registration and login with tokens (accounts), and    *)
(* the Post and Comment view sets with their owner permission (posts).     *)
(*                                                                         *)
(* Text (titles, names, query-string values) is a sequence of ASCII codes, *)
(* so that stripping, splitting, case folding and collation are computed.  *)
(* An optional value is a sequence of length 0 (absent) or 1 (present).    *)
(*                                                                         *)
(* Requests are served one at a time: a client sends a request (Send), the *)
(* view serves it in one step, the client takes the response (Close).      *)
(***************************************************************************)
EXTENDS Integers, Sequences, FiniteSets, TLC

VARIABLES
    authors,        \* the Author table: a set of rows [id, name]
    books,          \* the Book table: a set of rows [id, title, publication_year, author]
    nextAuthorId,   \* the next value of Author's auto-increment primary key
    nextBookId,     \* the next value of Book's auto-increment primary key
    current_year,   \* datetime.now().year
    req,            \* the request in flight, NoRequest when there is none
    resp,           \* the response to req, NoResponse until it is served
    \* relationship_app of LibraryProject
    users,          \* the User table: a set of rows [id, username]
    profiles,       \* the UserProfile table: a set of rows [id, user, role]
    nextUserId,     \* the next primary key of User
    nextProfileId,  \* the next primary key of UserProfile
    libraries,      \* the Library table: a set of primary keys
    librarians,     \* the Librarian table: a set of rows [id, library]
    library_books,  \* the Book table of relationship_app: rows [id, library]
    nextLibraryId,  \* the next primary key of Library
    nextLibrarianId,    \* the next primary key of Librarian
    nextLibraryBookId,  \* the next primary key of Book of relationship_app
    bookshelf_books,    \* the Book table of bookshelf: a set of rows [id]
    \* social_media_api
    accounts,       \* the CustomUser table: rows [id, username, password, email,
                    \* bio, date_joined], date_joined the rank of the insert
    tokens,         \* the Token table: rows [key, user]
    nextAccountId,  \* the next primary key of CustomUser
    nextTokenKey,   \* the number of token keys generated so far, plus one
    posts,          \* the Post table: rows [id, author, title, content]
    comments,       \* the Comment table: rows [id, post, author, content]
    nextPostId,     \* the next primary key of Post
    nextCommentId,  \* the next primary key of Comment
    calls,          \* accounts views: the request each worker is serving
    \* django_blog
    blog_tags,      \* the Tag table: a set of rows [id, name]
    post_tags,      \* Post.tags, the many-to-many table: rows [post, tag]
    nextTagId,      \* the next primary key of Tag
    saves           \* PostForm.save: the call each worker is running

\* the tables of advanced-api-project and its clock
bookVars == <<authors, books, nextAuthorId, nextBookId, current_year>>

\* the tables of relationship_app
shelfVars ==
    <<libraries, librarians, library_books, nextLibraryId, nextLibrarianId,
      nextLibraryBookId, bookshelf_books>>

libraryVars == <<users, profiles, nextUserId, nextProfileId, shelfVars>>

\* the tables of social_media_api
socialVars ==
    <<accounts, tokens, nextAccountId, nextTokenKey, posts, comments, nextPostId,
      nextCommentId, calls>>

\* the tables of django_blog
blogVars == <<blog_tags, post_tags, nextTagId, saves>>

vars == <<bookVars, req, resp, libraryVars, socialVars, blogVars>>

----------------------------------------------------------------------------
(* Bounds of the model *)

MaxBooks == 2       \* Book rows ever inserted (ids 1..MaxBooks)
StartYear == 2024   \* the year of the clock at the start

\* the clock is followed into the next year
LastYear == StartYear + 1

----------------------------------------------------------------------------
(* Text *)

\* 'A' .. 'Z' become 'a' .. 'z' (what SQLite's LIKE folds: ASCII letters)
LowerChar(c) == IF c >= 65 /\ c <= 90 THEN c + 32 ELSE c

Lower(s) == [i \in 1..Len(s) |-> LowerChar(s[i])]

IsSpace(c) == c = 32

\* str.strip(): leading and trailing white space removed
RECURSIVE LStrip(_)
LStrip(s) == IF s # <<>> /\ IsSpace(Head(s)) THEN LStrip(Tail(s)) ELSE s

RECURSIVE RStrip(_)
RStrip(s) ==
    IF s # <<>> /\ IsSpace(s[Len(s)]) THEN RStrip(SubSeq(s, 1, Len(s) - 1)) ELSE s

Strip(s) == LStrip(RStrip(s))

\* t occurs in s as a contiguous substring
Contains(s, t) ==
    \E i \in 0..(Len(s) - Len(t)) : SubSeq(s, i + 1, i + Len(t)) = t

\* a < b in the binary collation: code point by code point, a prefix first
RECURSIVE TextLess(_, _)
TextLess(a, b) ==
    IF b = <<>> THEN FALSE
    ELSE IF a = <<>> THEN TRUE
    ELSE IF Head(a) # Head(b) THEN Head(a) < Head(b)
    ELSE TextLess(Tail(a), Tail(b))

\* int(s) for a string of decimal digits; <<>> when s is not one
IsDigits(s) == s # <<>> /\ \A i \in 1..Len(s) : s[i] >= 48 /\ s[i] <= 57

RECURSIVE DigitsValue(_)
DigitsValue(s) ==
    IF s = <<>> THEN 0 ELSE 10 * DigitsValue(SubSeq(s, 1, Len(s) - 1)) + (s[Len(s)] - 48)

ParseInt(s) == IF IsDigits(s) THEN <<DigitsValue(s)>> ELSE <<>>

\* str(n) for n >= 0
RECURSIVE ToDigits(_)
ToDigits(n) == IF n < 10 THEN <<48 + n>> ELSE Append(ToDigits(n \div 10), 48 + (n % 10))

\* s.split(sep) for a one-character separator: the pieces between separators
RECURSIVE SplitOn(_, _)
SplitOn(s, sep) ==
    IF \A i \in 1..Len(s) : s[i] # sep THEN <<s>>
    ELSE LET k == CHOOSE i \in 1..Len(s) :
                      s[i] = sep /\ \A j \in 1..(i - 1) : s[j] # sep
         IN  <<SubSeq(s, 1, k - 1)>> \o SplitOn(SubSeq(s, k + 1, Len(s)), sep)

\* s.split(): the maximal runs of characters that are not white space
SplitWhitespace(s) == SelectSeq(SplitOn(s, 32), LAMBDA t : t # <<>>)

\* s.replace(old, new) for single characters
ReplaceChar(s, old, new) == [i \in 1..Len(s) |-> IF s[i] = old THEN new ELSE s[i]]

----------------------------------------------------------------------------
(* The tables *)

AuthorIds == {a.id : a \in authors}

BookIds == {b.id : b \in books}

BookById(pk) == CHOOSE b \in books : b.id = pk

AuthorById(pk) == CHOOSE a \in authors : a.id = pk

\* on_delete=DO_NOTHING: no row goes with the author
CascadeBooks_do_nothing(pk) == {}

\* Book.author is a ForeignKey with on_delete=CASCADE: the rows that go with author pk
CascadeBooks(pk) == {b \in books : b.author = pk}

----------------------------------------------------------------------------
(* BookSerializer *)

MinPublicationYear == 1450

TitleMaxLength == 200

NoErrors == {}

\* validate_publication_year with the lower limit itself rejected
validate_publication_year_strict(value, now) ==
    IF value > now THEN [ok |-> FALSE, value |-> value, code |-> "future"]
    ELSE IF value <= MinPublicationYear
         THEN [ok |-> FALSE, value |-> value, code |-> "unrealistic"]
         ELSE [ok |-> TRUE, value |-> value, code |-> "none"]

\* validate_publication_year: [ok, value, code]
validate_publication_year(value, now) ==
    IF value > now THEN [ok |-> FALSE, value |-> value, code |-> "future"]
    ELSE IF value < MinPublicationYear
         THEN [ok |-> FALSE, value |-> value, code |-> "unrealistic"]
         ELSE [ok |-> TRUE, value |-> value, code |-> "none"]

\* One field of the incoming data: the errors it gives rise to
TitleErrors(data, partial) ==
    IF data.title = <<>>
    THEN IF partial THEN NoErrors ELSE {<<"title", "required">>}
    ELSE IF Strip(data.title[1]) = <<>> THEN {<<"title", "blank">>}
    ELSE IF Len(Strip(data.title[1])) > TitleMaxLength THEN {<<"title", "max_length">>}
    ELSE NoErrors

\* PublicationYearErrors with a partial update left unvalidated
PublicationYearErrors_partial_unchecked(data, partial, now) ==
    IF partial THEN NoErrors
    ELSE IF data.publication_year = <<>> THEN {<<"publication_year", "required">>}
    ELSE LET r == validate_publication_year(data.publication_year[1], now)
         IN  IF r.ok THEN NoErrors ELSE {<<"publication_year", r.code>>}

PublicationYearErrors(data, partial, now) ==
    IF data.publication_year = <<>>
    THEN IF partial THEN NoErrors ELSE {<<"publication_year", "required">>}
    ELSE LET r == validate_publication_year(data.publication_year[1], now)
         IN  IF r.ok THEN NoErrors ELSE {<<"publication_year", r.code>>}

\* AuthorErrors without the lookup of the author
AuthorErrors_no_lookup(data, partial) ==
    IF data.author = <<>> /\ ~partial THEN {<<"author", "required">>} ELSE NoErrors

AuthorErrors(data, partial) ==
    IF data.author = <<>>
    THEN IF partial THEN NoErrors ELSE {<<"author", "required">>}
    ELSE IF data.author[1] \notin AuthorIds THEN {<<"author", "does_not_exist">>}
    ELSE NoErrors

\* BookSerializer(data=..., partial=...).errors: every field is validated
\* and the errors of all fields are collected
SerializerErrors(data, partial) ==
    TitleErrors(data, partial)
        \cup PublicationYearErrors(data, partial, current_year)
        \cup AuthorErrors(data, partial)

\* ApplyValidated that never writes the author
ApplyValidated_ignore_author(instance, data) ==
    [id |-> instance.id,
     title |-> IF data.title = <<>> THEN instance.title ELSE Strip(data.title[1]),
     publication_year |-> IF data.publication_year = <<>>
                          THEN instance.publication_year
                          ELSE data.publication_year[1],
     author |-> instance.author]

\* validated_data laid over an instance: the fields present replace its own
ApplyValidated(instance, data) ==
    [id |-> instance.id,
     title |-> IF data.title = <<>> THEN instance.title ELSE Strip(data.title[1]),
     publication_year |-> IF data.publication_year = <<>>
                          THEN instance.publication_year
                          ELSE validate_publication_year(
                                   data.publication_year[1], current_year).value,
     author |-> IF data.author = <<>> THEN instance.author ELSE data.author[1]]

\* BookSerializer(instance).data
to_representation(b) == b

----------------------------------------------------------------------------
(* Responses *)

\* A request: the view its URL routes to, the method, whether it
\* authenticates, the <pk> of the URL, the body, the query string, and
\* (kept by the client, read by no view) the parameters the query string
\* was written from
NoParams == [title |-> <<>>, author |-> <<>>, year |-> <<>>, search |-> <<>>,
             order |-> <<>>]

NoRequest == [view |-> "none", method |-> "none", auth |-> FALSE, pk |-> 0,
              data |-> [title |-> <<>>, publication_year |-> <<>>, author |-> <<>>],
              query |-> <<>>, params |-> NoParams]

NoResponse == [status |-> 0, errors |-> NoErrors, body |-> <<>>]

Response(status, errors, body) == [status |-> status, errors |-> errors, body |-> body]

\* The status of a refusal of an unauthenticated request
NotAuthenticatedStatus == 403

----------------------------------------------------------------------------
(* Permissions *)

SAFE_METHODS == {"GET", "HEAD", "OPTIONS"}

\* IsAuthenticatedOrReadOnly.has_permission
IsAuthenticatedOrReadOnly(method, auth) == method \in SAFE_METHODS \/ auth

\* permission_classes = []
AllowAny(method, auth) == TRUE

----------------------------------------------------------------------------
(* The views of api/views.py that write or read one book.  Each handler    *)
(* serves the request in flight and answers in resp; DRF runs the view's   *)
(* permission classes first, then looks the object up, then validates,     *)
(* then saves.                                                             *)

Pending == req # NoRequest /\ resp = NoResponse

\* BookDetailView with permission_classes = [IsAuthenticated]
BookDetailView_permission_authenticated(method, auth) == auth

BookDetailView_permission(method, auth) == AllowAny(method, auth)

BookCreateView_permission(method, auth) == IsAuthenticatedOrReadOnly(method, auth)

BookUpdateView_permission(method, auth) == IsAuthenticatedOrReadOnly(method, auth)

\* BookDeleteView with permission_classes = []
BookDeleteView_permission_open(method, auth) == AllowAny(method, auth)

BookDeleteView_permission(method, auth) == IsAuthenticatedOrReadOnly(method, auth)

\* perform_create on a table whose primary key takes the lowest free value
perform_create_reuse_id(data) ==
    ApplyValidated([id |-> CHOOSE i \in 1..nextBookId :
                               i \notin BookIds /\ \A j \in 1..(i - 1) : j \in BookIds,
                    title |-> <<>>, publication_year |-> 0, author |-> 0], data)

\* BookCreateView.perform_create: serializer.save() inserts the validated row
perform_create(data) ==
    ApplyValidated([id |-> nextBookId, title |-> <<>>, publication_year |-> 0,
                    author |-> 0], data)

\* BookUpdateView.perform_update: serializer.save() writes the validated
\* fields over the instance
perform_update(instance, data) == ApplyValidated(instance, data)

\* GET /books/<pk>/
BookDetailView_get ==
    /\ Pending /\ req.view = "detail" /\ req.method = "GET"
    /\ resp' = IF ~BookDetailView_permission(req.method, req.auth)
               THEN Response(NotAuthenticatedStatus, NoErrors, <<>>)
               ELSE IF req.pk \notin BookIds THEN Response(404, NoErrors, <<>>)
               ELSE Response(200, NoErrors, <<to_representation(BookById(req.pk))>>)
    /\ UNCHANGED <<authors, books, nextAuthorId, nextBookId, current_year, req>>
    /\ UNCHANGED <<libraryVars, socialVars, blogVars>>

\* POST /books/create/
BookCreateView_post ==
    /\ Pending /\ req.view = "create" /\ req.method = "POST"
    /\ IF ~BookCreateView_permission(req.method, req.auth)
       THEN /\ resp' = Response(NotAuthenticatedStatus, NoErrors, <<>>)
            /\ UNCHANGED <<books, nextBookId>>
       ELSE IF SerializerErrors(req.data, FALSE) # NoErrors
       THEN /\ resp' = Response(400, SerializerErrors(req.data, FALSE), <<>>)
            /\ UNCHANGED <<books, nextBookId>>
       ELSE /\ books' = books \cup {perform_create(req.data)}
            /\ nextBookId' = nextBookId + 1
            /\ resp' = Response(201, NoErrors,
                                <<to_representation(perform_create(req.data))>>)
    /\ UNCHANGED <<authors, nextAuthorId, current_year, req>>
    /\ UNCHANGED <<libraryVars, socialVars, blogVars>>

\* an update that validates the body before it looks the book up
BookUpdateView_update_validate_first(partial) ==
    /\ Pending /\ req.view = "update"
    /\ IF ~BookUpdateView_permission(req.method, req.auth)
       THEN /\ resp' = Response(NotAuthenticatedStatus, NoErrors, <<>>)
            /\ UNCHANGED books
       ELSE IF SerializerErrors(req.data, partial) # NoErrors
       THEN /\ resp' = Response(400, SerializerErrors(req.data, partial), <<>>)
            /\ UNCHANGED books
       ELSE IF req.pk \notin BookIds
       THEN /\ resp' = Response(404, NoErrors, <<>>)
            /\ UNCHANGED books
       ELSE LET instance == BookById(req.pk)
                saved == perform_update(instance, req.data)
            IN  /\ books' = (books \ {instance}) \cup {saved}
                /\ resp' = Response(200, NoErrors, <<to_representation(saved)>>)
    /\ UNCHANGED <<authors, nextAuthorId, nextBookId, current_year, req>>
    /\ UNCHANGED <<libraryVars, socialVars, blogVars>>

\* UpdateModelMixin.update, partial = FALSE for PUT and TRUE for PATCH
BookUpdateView_update(partial) ==
    /\ Pending /\ req.view = "update"
    /\ IF ~BookUpdateView_permission(req.method, req.auth)
       THEN /\ resp' = Response(NotAuthenticatedStatus, NoErrors, <<>>)
            /\ UNCHANGED books
       ELSE IF req.pk \notin BookIds
       THEN /\ resp' = Response(404, NoErrors, <<>>)
            /\ UNCHANGED books
       ELSE IF SerializerErrors(req.data, partial) # NoErrors
       THEN /\ resp' = Response(400, SerializerErrors(req.data, partial), <<>>)
            /\ UNCHANGED books
       ELSE LET instance == BookById(req.pk)
                saved == perform_update(instance, req.data)
            IN  /\ books' = (books \ {instance}) \cup {saved}
                /\ resp' = Response(200, NoErrors, <<to_representation(saved)>>)
    /\ UNCHANGED <<authors, nextAuthorId, nextBookId, current_year, req>>
    /\ UNCHANGED <<libraryVars, socialVars, blogVars>>

\* PUT /books/<pk>/update/
BookUpdateView_put == req.method = "PUT" /\ BookUpdateView_update(FALSE)

\* PATCH served as a full update
BookUpdateView_patch_as_put == req.method = "PATCH" /\ BookUpdateView_update(FALSE)

\* PATCH /books/<pk>/update/
BookUpdateView_patch == req.method = "PATCH" /\ BookUpdateView_update(TRUE)

\* DELETE that removes every book of the author of book <pk>
BookDeleteView_delete_author_books ==
    /\ Pending /\ req.view = "delete" /\ req.method = "DELETE"
    /\ IF ~BookDeleteView_permission(req.method, req.auth)
       THEN /\ resp' = Response(NotAuthenticatedStatus, NoErrors, <<>>)
            /\ UNCHANGED books
       ELSE IF req.pk \notin BookIds
       THEN /\ resp' = Response(404, NoErrors, <<>>)
            /\ UNCHANGED books
       ELSE /\ books' = {b \in books : b.author # BookById(req.pk).author}
            /\ resp' = Response(204, NoErrors, <<>>)
    /\ UNCHANGED <<authors, nextAuthorId, nextBookId, current_year, req>>
    /\ UNCHANGED <<libraryVars, socialVars, blogVars>>

\* DELETE /books/<pk>/delete/
BookDeleteView_delete ==
    /\ Pending /\ req.view = "delete" /\ req.method = "DELETE"
    /\ IF ~BookDeleteView_permission(req.method, req.auth)
       THEN /\ resp' = Response(NotAuthenticatedStatus, NoErrors, <<>>)
            /\ UNCHANGED books
       ELSE IF req.pk \notin BookIds
       THEN /\ resp' = Response(404, NoErrors, <<>>)
            /\ UNCHANGED books
       ELSE /\ books' = books \ {BookById(req.pk)}
            /\ resp' = Response(204, NoErrors, <<>>)
    /\ UNCHANGED <<authors, nextAuthorId, nextBookId, current_year, req>>
    /\ UNCHANGED <<libraryVars, socialVars, blogVars>>

----------------------------------------------------------------------------
(* BookListView: GET /books/ with the three filter backends                *)

\* the names of the model's fields as they are written in the source
T_title == <<116, 105, 116, 108, 101>>

T_author == <<97, 117, 116, 104, 111, 114>>

T_publication_year ==
    <<112, 117, 98, 108, 105, 99, 97, 116, 105, 111, 110, 95, 121, 101, 97, 114>>

\* "-title", "-publication_year"
Desc(name) == <<45>> \o name

\* Book.Meta.ordering
Meta_ordering == <<Desc(T_publication_year), T_title>>

filter_backends == <<"DjangoFilterBackend", "SearchFilter", "OrderingFilter">>

\* filterset_fields without the author
filterset_fields_no_author == <<"title", "publication_year">>

filterset_fields == <<"title", "author", "publication_year">>

\* search_fields without the title
search_fields_author_name == <<"author__name">>

search_fields == <<"title", "author__name">>

\* ordering_fields with the author added
ordering_fields_with_author == <<T_title, T_publication_year, T_author>>

ordering_fields == <<T_title, T_publication_year>>

ordering == <<T_title>>

BookListView_permission(method, auth) == AllowAny(method, auth)

\* request.query_params.get(key): the last value given for key, if any
RECURSIVE QueryGet(_, _)
QueryGet(query, key) ==
    IF query = <<>> THEN <<>>
    ELSE IF query[Len(query)][1] = key THEN <<query[Len(query)][2]>>
    ELSE QueryGet(SubSeq(query, 1, Len(query) - 1), key)

\* the value of a filter's form field: absent and blank values do not filter
FilterValue(query, field) ==
    IF QueryGet(query, field) = <<>> \/ Strip(QueryGet(query, field)[1]) = <<>>
    THEN <<>>
    ELSE <<Strip(QueryGet(query, field)[1])>>

\* the filterset's form errors: author is a ModelChoiceFilter over the
\* Author table, publication_year a NumberFilter
FilterFieldErrors(query, field) ==
    LET v == FilterValue(query, field)
    IN  IF v = <<>> THEN NoErrors
        ELSE IF field = "author"
        THEN IF ParseInt(v[1]) = <<>> \/ ParseInt(v[1])[1] \notin AuthorIds
             THEN {<<"author", "invalid_choice">>}
             ELSE NoErrors
        ELSE IF field = "publication_year"
        THEN IF ParseInt(v[1]) = <<>>
             THEN {<<"publication_year", "invalid">>}
             ELSE NoErrors
        ELSE NoErrors

FilterErrors(query) ==
    UNION {FilterFieldErrors(query, filterset_fields[i]) :
               i \in 1..Len(filterset_fields)}

\* the cleaned value of a filter's form field: the text of a CharFilter,
\* the number of a NumberFilter, the primary key of a ModelChoiceFilter
CleanedValue(query, field) ==
    LET v == FilterValue(query, field)
    IN  IF v = <<>> THEN <<>>
        ELSE IF field = "title" THEN v
        ELSE ParseInt(v[1])

\* one filter of the filterset, lookup "exact", on the cleaned value
FilterMatches(b, field, cleaned) ==
    IF cleaned = <<>> THEN TRUE
    ELSE IF field = "title" THEN b.title = cleaned[1]
    ELSE IF field = "author" THEN b.author = cleaned[1]
    ELSE b.publication_year = cleaned[1]

\* DjangoFilterBackend.filter_queryset
DjangoFilterBackend(queryset, query) ==
    LET cleaned == [i \in 1..Len(filterset_fields) |->
                        CleanedValue(query, filterset_fields[i])]
    IN  [queryset EXCEPT !.rows =
            {b \in queryset.rows :
                \A i \in 1..Len(filterset_fields) :
                    FilterMatches(b, filterset_fields[i], cleaned[i])}]

\* SearchFilter.get_search_terms: commas count as white space
get_search_terms(query) ==
    IF QueryGet(query, "search") = <<>> THEN <<>>
    ELSE SplitWhitespace(ReplaceChar(QueryGet(query, "search")[1], 44, 32))

\* the text of one of the search_fields of a book
SearchText(b, field) ==
    IF field = "title" THEN b.title ELSE AuthorById(b.author).name

\* the lookup "contains", which tells the cases apart
icontains_case_sensitive(text, term) == Contains(text, term)

\* the lookup "icontains"
icontains(text, term) == Contains(Lower(text), Lower(term))

\* SearchFilter that, given terms, searches the whole table instead of the
\* queryset handed on
SearchFilter_from_all(queryset, query) ==
    LET terms == get_search_terms(query)
    IN  [queryset EXCEPT !.rows =
            {b \in (IF terms = <<>> THEN queryset.rows ELSE books) :
                \A k \in 1..Len(terms) :
                    \E i \in 1..Len(search_fields) :
                        icontains(SearchText(b, search_fields[i]), terms[k])}]

\* SearchFilter.filter_queryset: every term is in one of the search_fields
SearchFilter(queryset, query) ==
    LET terms == get_search_terms(query)
    IN  [queryset EXCEPT !.rows =
            {b \in queryset.rows :
                \A k \in 1..Len(terms) :
                    \E i \in 1..Len(search_fields) :
                        icontains(SearchText(b, search_fields[i]), terms[k])}]

\* OrderingFilter.remove_invalid_fields
term_valid(term) ==
    LET name == IF term # <<>> /\ Head(term) = 45 THEN Tail(term) ELSE term
    IN  \E i \in 1..Len(ordering_fields) : ordering_fields[i] = name

\* a view without the ordering attribute: the model's Meta ordering stays
get_default_ordering_meta == Meta_ordering

\* OrderingFilter.get_default_ordering
get_default_ordering == ordering

\* OrderingFilter.get_ordering
get_ordering(query) ==
    LET params == QueryGet(query, "ordering")
        fields == IF params = <<>> \/ params[1] = <<>> THEN <<>>
                  ELSE LET pieces == SplitOn(params[1], 44)
                       IN  [i \in 1..Len(pieces) |-> Strip(pieces[i])]
        valid == SelectSeq(fields, term_valid)
    IN  IF valid # <<>> THEN valid ELSE get_default_ordering

\* OrderingFilter.filter_queryset: queryset.order_by(*ordering)
OrderingFilter(queryset, query) ==
    IF get_ordering(query) # <<>>
    THEN [queryset EXCEPT !.order_by = get_ordering(query)]
    ELSE queryset

ApplyBackend(backend, queryset, query) ==
    IF backend = "DjangoFilterBackend" THEN DjangoFilterBackend(queryset, query)
    ELSE IF backend = "SearchFilter" THEN SearchFilter(queryset, query)
    ELSE OrderingFilter(queryset, query)

\* GenericAPIView.filter_queryset: the backends in turn
RECURSIVE filter_queryset(_, _, _)
filter_queryset(backends, queryset, query) ==
    IF backends = <<>> THEN queryset
    ELSE filter_queryset(Tail(backends), ApplyBackend(Head(backends), queryset, query),
                         query)

\* Book.objects.all()
AllBooks == [rows |-> books, order_by |-> Meta_ordering]

\* ORDER BY: b1 before b2 (-1), after (1) or tied (0) under the terms
RECURSIVE OrderCompare(_, _, _)
OrderCompare(b1, b2, terms) ==
    IF terms = <<>> THEN 0
    ELSE LET desc == Head(Head(terms)) = 45
             name == IF desc THEN Tail(Head(terms)) ELSE Head(terms)
             less == IF name = T_title THEN TextLess(b1.title, b2.title)
                     ELSE IF name = T_author
                     THEN TextLess(AuthorById(b1.author).name, AuthorById(b2.author).name)
                     ELSE b1.publication_year < b2.publication_year
             more == IF name = T_title THEN TextLess(b2.title, b1.title)
                     ELSE IF name = T_author
                     THEN TextLess(AuthorById(b2.author).name, AuthorById(b1.author).name)
                     ELSE b2.publication_year < b1.publication_year
         IN  IF less THEN (IF desc THEN 1 ELSE -1)
             ELSE IF more THEN (IF desc THEN -1 ELSE 1)
             ELSE OrderCompare(b1, b2, Tail(terms))

\* The sequences a database may return for the queryset: each row once, in
\* the order of ORDER BY; the order of tied rows is the database's choice
Evaluate(queryset) ==
    {s \in [1..Cardinality(queryset.rows) -> queryset.rows] :
        /\ \A i, j \in DOMAIN s : i # j => s[i] # s[j]
        /\ \A i \in 1..(Len(s) - 1) :
               OrderCompare(s[i], s[i + 1], queryset.order_by) <= 0}

\* the bodies BookListView may answer with
ListBodies(query) ==
    LET result == Evaluate(filter_queryset(filter_backends, AllBooks, query))
    IN  {[i \in DOMAIN s |-> to_representation(s[i])] : s \in result}

\* GET /books/
BookListView_get ==
    /\ Pending /\ req.view = "list" /\ req.method = "GET"
    /\ IF ~BookListView_permission(req.method, req.auth)
       THEN resp' = Response(NotAuthenticatedStatus, NoErrors, <<>>)
       ELSE IF FilterErrors(req.query) # NoErrors
       THEN resp' = Response(400, FilterErrors(req.query), <<>>)
       ELSE \E body \in ListBodies(req.query) : resp' = Response(200, NoErrors, body)
    /\ UNCHANGED <<authors, books, nextAuthorId, nextBookId, current_year, req>>
    /\ UNCHANGED <<libraryVars, socialVars, blogVars>>

----------------------------------------------------------------------------
(* What happens outside the API, between two requests: the admin site      *)
(* deletes authors, and the calendar year changes.                         *)

Idle == req = NoRequest

\* AuthorAdmin, delete: author.delete() takes the author's books with it
AuthorDelete(pk) ==
    /\ Idle
    /\ pk \in AuthorIds
    /\ authors' = authors \ {AuthorById(pk)}
    /\ books' = books \ CascadeBooks(pk)
    /\ UNCHANGED <<nextAuthorId, nextBookId, current_year, req, resp>>
    /\ UNCHANGED <<libraryVars, socialVars, blogVars>>

\* New Year: datetime.now().year grows by one
Tick ==
    /\ Idle
    /\ current_year < LastYear
    /\ current_year' = current_year + 1
    /\ UNCHANGED <<authors, books, nextAuthorId, nextBookId, req, resp>>
    /\ UNCHANGED <<libraryVars, socialVars, blogVars>>

----------------------------------------------------------------------------
(* Clients *)

\* the titles a client submits: "a", " Ab" (white space in front)
TitleInputs == {<<97>>, <<32, 65, 98>>}

\* the years a client submits: below and at the lower limit, and the year
\* that is next year before New Year and the current year after
YearInputs == {MinPublicationYear - 1, MinPublicationYear, LastYear}

\* the author ids a client submits: those of the two authors of Init
AuthorIdInputs == {1, 2}

Opt(S) == {<<>>} \cup {<<x>> : x \in S}

\* request bodies
DataInputs ==
    [title : Opt(TitleInputs), publication_year : Opt(YearInputs),
     author : Opt(AuthorIdInputs)]

Request(view, method, auth, pk, data, query) ==
    [view |-> view, method |-> method, auth |-> auth, pk |-> pk, data |-> data,
     query |-> query, params |-> NoParams]

NoData == [title |-> <<>>, publication_year |-> <<>>, author |-> <<>>]

\* the bodies of unauthenticated requests: those with every field present
FullDataInputs ==
    {d \in DataInputs : d.title # <<>> /\ d.publication_year # <<>> /\ d.author # <<>>}

BodiesOf(auth) == IF auth THEN DataInputs ELSE FullDataInputs

WriteRequests ==
    UNION {{Request("create", "POST", auth, 0, d, <<>>) : d \in BodiesOf(auth)}
               \cup {Request("update", x[1], auth, x[2], x[3], <<>>) :
                       x \in {"PUT", "PATCH"} \X (1..MaxBooks) \X BodiesOf(auth)}
               \cup {Request("delete", "DELETE", auth, pk, NoData, <<>>) :
                       pk \in 1..MaxBooks} :
           auth \in BOOLEAN}

DetailRequests ==
    {Request("detail", "GET", auth, pk, NoData, <<>>) : auth \in BOOLEAN, pk \in 1..MaxBooks}

\* "k=v" when the parameter is given
Param(key, opt) == IF opt = <<>> THEN <<>> ELSE <<<<key, opt[1]>>>>

Query(title, author, year, search, order) ==
    Param("title", title) \o Param("author", author)
        \o Param("publication_year", year) \o Param("search", search)
        \o Param("ordering", order)

\* ?title=Ab
TitleParams == Opt({<<65, 98>>})

\* ?author=1, ?author=2
AuthorParams == Opt({ToDigits(a) : a \in AuthorIdInputs})

\* ?publication_year=1450
YearParams == Opt({ToDigits(MinPublicationYear)})

\* ?search= b, B, "A c"
SearchParams == Opt({<<98>>, <<66>>, <<65, 32, 99>>})

\* ?ordering= title, -title, publication_year, -publication_year, author
OrderingParams ==
    Opt({T_title, Desc(T_title), T_publication_year, Desc(T_publication_year),
         T_author})

\* every combination of the five parameters
ListParams ==
    [title : TitleParams, author : AuthorParams, year : YearParams,
     search : SearchParams, order : OrderingParams]

QueryOf(c) == Query(c.title, c.author, c.year, c.search, c.order)

ListRequests ==
    {[Request("list", "GET", FALSE, 0, NoData, QueryOf(c)) EXCEPT !.params = c] :
        c \in ListParams}

\* GET /books/ with no parameter
PlainList == Request("list", "GET", FALSE, 0, NoData, <<>>)

\* the same by a client that authenticates
PlainListAsUser == Request("list", "GET", TRUE, 0, NoData, <<>>)

Requests == WriteRequests \cup DetailRequests \cup {PlainList, PlainListAsUser}

\* A client sends a request.  A create that would insert a row past the
\* model's bound on Book rows is not sent.
Send(r) ==
    /\ Idle
    /\ r.view = "create" => nextBookId <= MaxBooks
    /\ req' = r
    /\ resp' = NoResponse
    /\ UNCHANGED <<bookVars, blogVars, libraryVars, socialVars>>

\* The client has taken the response
Close ==
    /\ req # NoRequest /\ resp # NoResponse
    /\ req' = NoRequest
    /\ resp' = NoResponse
    /\ UNCHANGED <<bookVars, blogVars, libraryVars, socialVars>>

----------------------------------------------------------------------------
(* Spec: any sequence of requests to the views, of admin deletions of      *)
(* authors, and of new years, from a database that holds two authors       *)
(* ("b" and "C") and no book.                                              *)

FixtureAuthors == {[id |-> 1, name |-> <<98>>], [id |-> 2, name |-> <<67>>]}

\* no library, librarian or book in relationship_app and bookshelf
ShelvesEmpty ==
    /\ libraries = {}
    /\ librarians = {}
    /\ library_books = {}
    /\ nextLibraryId = 1
    /\ nextLibrarianId = 1
    /\ nextLibraryBookId = 1
    /\ bookshelf_books = {}

\* the database of relationship_app, empty
LibraryEmpty ==
    /\ ShelvesEmpty
    /\ users = {}
    /\ profiles = {}
    /\ nextUserId = 1
    /\ nextProfileId = 1

\* the server processes that serve the accounts views side by side
Workers == {"w1", "w2"}

\* a worker that serves no request
NoCall == [view |-> "none", data |-> <<>>, pc |-> "idle", user |-> 0,
           resp |-> NoResponse]

\* a worker that runs no PostForm.save
NoSave == [pc |-> "idle", post |-> 0, tags |-> <<>>, names |-> <<>>, tag |-> 0]

\* the database of django_blog without a tag
BlogEmpty ==
    /\ blog_tags = {}
    /\ post_tags = {}
    /\ nextTagId = 1
    /\ saves = [w \in Workers |-> NoSave]

\* the database of social_media_api, empty
SocialEmpty ==
    /\ calls = [w \in Workers |-> NoCall]
    /\ accounts = {}
    /\ tokens = {}
    /\ nextAccountId = 1
    /\ nextTokenKey = 1
    /\ posts = {}
    /\ comments = {}
    /\ nextPostId = 1
    /\ nextCommentId = 1

Init ==
    /\ LibraryEmpty
    /\ SocialEmpty
    /\ BlogEmpty
    /\ authors = FixtureAuthors
    /\ books = {}
    /\ nextAuthorId = 3
    /\ nextBookId = 1
    /\ current_year = StartYear
    /\ req = NoRequest
    /\ resp = NoResponse

Next ==
    \/ \E r \in Requests : Send(r)
    \/ BookListView_get
    \/ BookDetailView_get
    \/ BookCreateView_post
    \/ BookUpdateView_put
    \/ BookUpdateView_patch
    \/ BookDeleteView_delete
    \/ Close
    \/ \E pk \in AuthorIdInputs : AuthorDelete(pk)
    \/ Tick

Spec == Init /\ [][Next]_vars

----------------------------------------------------------------------------
(* SpecList: requests to the list view, with every combination of its      *)
(* parameters, against the databases the write views and the admin can     *)
(* leave behind: some of the two authors, and books 1..n, n <= MaxBooks.   *)

\* the titles and years the write views store
StoredTitles == {Strip(t) : t \in TitleInputs}

StoredYears == {MinPublicationYear, LastYear}

BookTables(auths) ==
    UNION {{{[id |-> i, title |-> f[i][1], publication_year |-> f[i][2],
              author |-> f[i][3]] : i \in 1..n} :
               f \in [1..n -> StoredTitles \X StoredYears \X {a.id : a \in auths}]} :
           n \in 0..MaxBooks}

InitList ==
    /\ LibraryEmpty
    /\ SocialEmpty
    /\ BlogEmpty
    /\ authors \in SUBSET FixtureAuthors
    /\ books \in BookTables(authors)
    /\ nextAuthorId = 3
    /\ nextBookId = MaxBooks + 1
    /\ current_year = LastYear
    /\ req = NoRequest
    /\ resp = NoResponse

NextList ==
    \/ \E r \in ListRequests : Send(r)
    \/ BookListView_get
    \/ Close

SpecList == InitList /\ [][NextList]_vars

----------------------------------------------------------------------------
(* SpecSearch: list requests with a search term of several words, an empty *)
(* one, a blank one, or none, over every table of up to MaxBooks books     *)
(* titled "a C", "c a" or "b" of the two authors.                          *)

SearchTitles == {<<97, 32, 67>>, <<99, 32, 97>>, <<98>>}

\* ?search=A c, ?search=, ?search=%20
SearchTerms == Opt({<<65, 32, 99>>, <<>>, <<32>>})

SearchRequests ==
    {[Request("list", "GET", FALSE, 0, NoData, QueryOf(c)) EXCEPT !.params = c] :
        c \in {[NoParams EXCEPT !.search = t] : t \in SearchTerms}}

SearchTables ==
    UNION {{{[id |-> i, title |-> f[i][1], publication_year |-> MinPublicationYear,
              author |-> f[i][2]] : i \in 1..n} :
               f \in [1..n -> SearchTitles \X {a.id : a \in FixtureAuthors}]} :
           n \in 0..MaxBooks}

InitSearch ==
    /\ LibraryEmpty
    /\ SocialEmpty
    /\ BlogEmpty
    /\ authors = FixtureAuthors
    /\ books \in SearchTables
    /\ nextAuthorId = 3
    /\ nextBookId = MaxBooks + 1
    /\ current_year = StartYear
    /\ req = NoRequest
    /\ resp = NoResponse

NextSearch ==
    \/ \E r \in SearchRequests : Send(r)
    \/ BookListView_get
    \/ Close

SpecSearch == InitSearch /\ [][NextSearch]_vars

----------------------------------------------------------------------------
(* relationship_app: a UserProfile per User, kept by two post_save         *)
(* receivers, and three views gated on the role of the profile.            *)

MaxUsers == 3       \* User rows ever inserted (ids 1..MaxUsers)

ADMIN == "Admin"

LIBRARIAN == "Librarian"

MEMBER == "Member"

ROLE_CHOICES == {ADMIN, LIBRARIAN, MEMBER}

UserIds == {u.id : u \in users}

\* the rows of a UserProfile table that belong to user pk
ProfilesOf(table, pk) == {p \in table : p.user = pk}

\* The UserProfile table with its primary-key sequence, as the receivers
\* find it and leave it
ProfileDb == [profiles |-> profiles, nextProfileId |-> nextProfileId]

\* create_user_profile without the test of created
create_user_profile_always(db, instance, created) ==
    [profiles |-> db.profiles \cup
                      {[id |-> db.nextProfileId, user |-> instance, role |-> MEMBER]},
     nextProfileId |-> db.nextProfileId + 1]

\* create_user_profile: UserProfile.objects.create(user=instance), the role
\* taking its default, when the user was created by this save
create_user_profile(db, instance, created) ==
    IF created
    THEN [profiles |-> db.profiles \cup
                           {[id |-> db.nextProfileId, user |-> instance, role |-> MEMBER]},
          nextProfileId |-> db.nextProfileId + 1]
    ELSE db

\* save_user_profile: instance.profile.save() writes the profile row as it
\* is; a user without profile (UserProfile.DoesNotExist) is passed over
save_user_profile(db, instance) ==
    IF ProfilesOf(db.profiles, instance) = {} THEN db
    ELSE LET p == CHOOSE q \in db.profiles : q.user = instance
         IN  [db EXCEPT !.profiles = (db.profiles \ {p}) \cup {p}]

\* the post_save signal of User: its receivers in the order they are connected
post_save(db, instance, created) ==
    save_user_profile(create_user_profile(db, instance, created), instance)

\* register: UserCreationForm is valid when the username is free; form.save()
\* inserts the user, and login() saves it once more (last_login)
register(username) ==
    /\ Idle
    /\ nextUserId <= MaxUsers
    /\ \A u \in users : u.username # username
    /\ LET db == post_save(post_save(ProfileDb, nextUserId, TRUE), nextUserId, FALSE)
       IN  /\ users' = users \cup {[id |-> nextUserId, username |-> username]}
           /\ nextUserId' = nextUserId + 1
           /\ profiles' = db.profiles
           /\ nextProfileId' = db.nextProfileId
    /\ UNCHANGED <<bookVars, blogVars, req, resp, socialVars, shelfVars>>

\* login_view: login() of an existing user saves it (last_login)
login_view(pk) ==
    /\ Idle
    /\ pk \in UserIds
    /\ LET db == post_save(ProfileDb, pk, FALSE)
       IN  /\ profiles' = db.profiles
           /\ nextProfileId' = db.nextProfileId
    /\ UNCHANGED <<users, nextUserId>>
    /\ UNCHANGED <<bookVars, blogVars, req, resp, socialVars, shelfVars>>

\* UserProfile.user is a OneToOneField with on_delete=CASCADE: the rows
\* that go with user pk
CascadeProfiles(pk) == ProfilesOf(profiles, pk)

\* a user is deleted
UserDelete(pk) ==
    /\ Idle
    /\ pk \in UserIds
    /\ users' = {u \in users : u.id # pk}
    /\ profiles' = profiles \ CascadeProfiles(pk)
    /\ UNCHANGED <<nextUserId, nextProfileId>>
    /\ UNCHANGED <<bookVars, blogVars, req, resp, socialVars, shelfVars>>

\* UserProfileAdmin, change: the role of a profile is set
UserProfileAdmin_change(pk, role) ==
    /\ Idle
    /\ \E p \in profiles :
           /\ p.id = pk
           /\ p.role # role
           /\ profiles' = (profiles \ {p}) \cup {[p EXCEPT !.role = role]}
    /\ UNCHANGED <<users, nextUserId, nextProfileId>>
    /\ UNCHANGED <<bookVars, blogVars, req, resp, socialVars, shelfVars>>

\* the usernames submitted: "a", "b", "c"
UsernameInputs == {<<97>>, <<98>>, <<99>>}

InitProfiles ==
    /\ Init

NextProfiles ==
    \/ \E username \in UsernameInputs : register(username)
    \/ \E pk \in 1..MaxUsers : login_view(pk)
    \/ \E pk \in 1..MaxUsers : UserDelete(pk)
    \/ \E pk \in 1..MaxUsers, role \in ROLE_CHOICES : UserProfileAdmin_change(pk, role)

\* SpecProfiles: registrations, logins, deletions of users and changes of
\* role, from an empty database
SpecProfiles == InitProfiles /\ [][NextProfiles]_vars

----------------------------------------------------------------------------
(* The role-gated views.  A request names the view, its path and the       *)
(* request.user: the id of a logged-in user, or AnonymousUser.             *)

AnonymousUser == 0

\* user.is_authenticated
is_authenticated(user) == user \in UserIds

\* hasattr(user, 'profile')
has_profile(user) == ProfilesOf(profiles, user) # {}

\* user.profile.role
profile_role(user) == (CHOOSE p \in profiles : p.user = user).role

is_admin(user) ==
    is_authenticated(user) /\ has_profile(user) /\ profile_role(user) = "Admin"

\* is_librarian that lets the Admin role pass as well
is_librarian_or_admin(user) ==
    is_authenticated(user) /\ has_profile(user)
        /\ profile_role(user) \in {"Librarian", "Admin"}

is_librarian(user) ==
    is_authenticated(user) /\ has_profile(user) /\ profile_role(user) = "Librarian"

is_member(user) ==
    is_authenticated(user) /\ has_profile(user) /\ profile_role(user) = "Member"

login_url == "/login/"

\* render(request, template)
render(template) == [status |-> 200, template |-> template, location |-> "", next |-> ""]

\* redirect_to_login(path, login_url)
redirect_to_login(path) ==
    [status |-> 302, template |-> "", location |-> login_url, next |-> path]

\* @user_passes_test(test_func, login_url='/login/') around a view that
\* renders template
user_passes_test(passes, path, template) ==
    IF passes THEN render(template) ELSE redirect_to_login(path)

admin_view ==
    /\ Pending /\ req.view = "admin_view"
    /\ resp' = user_passes_test(is_admin(req.user), req.path,
                                "relationship_app/admin_view.html")
    /\ UNCHANGED <<bookVars, blogVars, req, libraryVars, socialVars>>

librarian_view ==
    /\ Pending /\ req.view = "librarian_view"
    /\ resp' = user_passes_test(is_librarian(req.user), req.path,
                                "relationship_app/librarian_view.html")
    /\ UNCHANGED <<bookVars, blogVars, req, libraryVars, socialVars>>

member_view ==
    /\ Pending /\ req.view = "member_view"
    /\ resp' = user_passes_test(is_member(req.user), req.path,
                                "relationship_app/member_view.html")
    /\ UNCHANGED <<bookVars, blogVars, req, libraryVars, socialVars>>

\* urlpatterns: the three role-based URLs
RoleRoutes ==
    {[view |-> "admin_view", path |-> "admin/"],
     [view |-> "librarian_view", path |-> "librarian/"],
     [view |-> "member_view", path |-> "member/"]}

\* the requests to the gated views: by nobody, and by each id a user may have
RoleRequests ==
    {[view |-> r.view, path |-> r.path, user |-> u] :
        r \in RoleRoutes, u \in {AnonymousUser} \cup (1..MaxUsers)}

\* The databases the administration site can leave behind: users 1..n, each
\* with no profile or a profile of any role
UserTables ==
    UNION {{[users |-> {[id |-> i, username |-> <<96 + i>>] : i \in 1..n},
             profiles |-> {[id |-> i, user |-> i, role |-> f[i]] :
                               i \in {j \in 1..n : f[j] # "none"}}] :
               f \in [1..n -> ROLE_CHOICES \cup {"none"}]} :
           n \in 0..MaxUsers}

InitRoles ==
    /\ authors = {}
    /\ books = {}
    /\ nextAuthorId = 1
    /\ nextBookId = 1
    /\ current_year = StartYear
    /\ req = NoRequest
    /\ resp = NoResponse
    /\ \E t \in UserTables : users = t.users /\ profiles = t.profiles
    /\ nextUserId = MaxUsers + 1
    /\ nextProfileId = MaxUsers + 1
    /\ ShelvesEmpty
    /\ SocialEmpty
    /\ BlogEmpty

NextRoles ==
    \/ \E r \in RoleRequests : Send(r)
    \/ admin_view
    \/ librarian_view
    \/ member_view
    \/ Close

\* SpecRoles: requests to the three gated views against every such database
SpecRoles == InitRoles /\ [][NextRoles]_vars

----------------------------------------------------------------------------
(* relationship_app: Library, Librarian and Book.  The admin site adds,     *)
(* changes and deletes the rows; a row is written only when its form is    *)
(* valid, and a delete takes the rows that reference the deleted one.      *)

MaxLibraries == 2   \* Library rows ever inserted (ids 1..MaxLibraries)

\* Librarian rows and Book rows ever inserted
MaxLibrarians == MaxLibraries + 1

\* Book.library of advanced_features_and_security is null=True: no library
NoLibrary == 0

\* Librarian.library is a OneToOneField: the librarians of a library
LibrariansOf(pk) == {l \in librarians : l.library = pk}

\* Book.library, related_name='inventory'
inventory(pk) == {b \in library_books : b.library = pk}

\* a Librarian form that takes a library another librarian has
LibrarianFormValid_any(pk, library) == library \in libraries

\* the form of a Librarian (pk = 0: a new one): the library exists and no
\* other librarian has it
LibrarianFormValid(pk, library) ==
    /\ library \in libraries
    /\ \A l \in LibrariansOf(library) : l.id = pk

\* the admin actions leave the rest alone
AdminFrame ==
    UNCHANGED <<bookVars, blogVars, req, resp, socialVars, users, profiles, nextUserId,
                nextProfileId, bookshelf_books>>

\* LibraryAdmin, add
LibraryAdmin_add ==
    /\ Idle
    /\ nextLibraryId <= MaxLibraries
    /\ libraries' = libraries \cup {nextLibraryId}
    /\ nextLibraryId' = nextLibraryId + 1
    /\ UNCHANGED <<librarians, library_books, nextLibrarianId, nextLibraryBookId>>
    /\ AdminFrame

\* a delete of a library that leaves its librarian
CascadeLibrary_books_only(pk) ==
    [librarians |-> {}, library_books |-> inventory(pk)]

\* on_delete=CASCADE of Librarian.library and of Book.library: the rows
\* that go with library pk
CascadeLibrary(pk) ==
    [librarians |-> LibrariansOf(pk), library_books |-> inventory(pk)]

\* LibraryAdmin, delete
LibraryAdmin_delete(pk) ==
    /\ Idle
    /\ pk \in libraries
    /\ libraries' = libraries \ {pk}
    /\ librarians' = librarians \ CascadeLibrary(pk).librarians
    /\ library_books' = library_books \ CascadeLibrary(pk).library_books
    /\ UNCHANGED <<nextLibraryId, nextLibrarianId, nextLibraryBookId>>
    /\ AdminFrame

\* LibrarianAdmin, add
LibrarianAdmin_add(library) ==
    /\ Idle
    /\ nextLibrarianId <= MaxLibrarians
    /\ LibrarianFormValid(0, library)
    /\ librarians' = librarians \cup {[id |-> nextLibrarianId, library |-> library]}
    /\ nextLibrarianId' = nextLibrarianId + 1
    /\ UNCHANGED <<libraries, library_books, nextLibraryId, nextLibraryBookId>>
    /\ AdminFrame

\* LibrarianAdmin, change: the librarian is given another library
LibrarianAdmin_change(pk, library) ==
    /\ Idle
    /\ \E l \in librarians :
           /\ l.id = pk
           /\ l.library # library
           /\ LibrarianFormValid(pk, library)
           /\ librarians' = (librarians \ {l}) \cup {[l EXCEPT !.library = library]}
    /\ UNCHANGED <<libraries, library_books, nextLibraryId, nextLibrarianId,
                   nextLibraryBookId>>
    /\ AdminFrame

\* LibrarianAdmin, delete
LibrarianAdmin_delete(pk) ==
    /\ Idle
    /\ \E l \in librarians : l.id = pk /\ librarians' = librarians \ {l}
    /\ UNCHANGED <<libraries, library_books, nextLibraryId, nextLibrarianId,
                   nextLibraryBookId>>
    /\ AdminFrame

\* BookAdmin, add: the library is one that exists, or none
BookAdmin_add(library) ==
    /\ Idle
    /\ nextLibraryBookId <= MaxLibrarians
    /\ library \in libraries \cup {NoLibrary}
    /\ library_books' = library_books \cup
                            {[id |-> nextLibraryBookId, library |-> library]}
    /\ nextLibraryBookId' = nextLibraryBookId + 1
    /\ UNCHANGED <<libraries, librarians, nextLibraryId, nextLibrarianId>>
    /\ AdminFrame

\* BookAdmin, change: the book is moved to another library
BookAdmin_change(pk, library) ==
    /\ Idle
    /\ library \in libraries \cup {NoLibrary}
    /\ \E b \in library_books :
           /\ b.id = pk
           /\ b.library # library
           /\ library_books' = (library_books \ {b}) \cup {[b EXCEPT !.library = library]}
    /\ UNCHANGED <<libraries, librarians, nextLibraryId, nextLibrarianId,
                   nextLibraryBookId>>
    /\ AdminFrame

LibraryInputs == 0..MaxLibraries

InitLibraries == Init

NextLibraries ==
    \/ LibraryAdmin_add
    \/ \E pk \in LibraryInputs : LibraryAdmin_delete(pk)
    \/ \E library \in LibraryInputs : LibrarianAdmin_add(library)
    \/ \E pk \in 1..MaxLibrarians, library \in LibraryInputs :
           LibrarianAdmin_change(pk, library)
    \/ \E pk \in 1..MaxLibrarians : LibrarianAdmin_delete(pk)
    \/ \E library \in LibraryInputs : BookAdmin_add(library)
    \/ \E pk \in 1..MaxLibrarians, library \in LibraryInputs :
           BookAdmin_change(pk, library)

SpecLibraries == InitLibraries /\ [][NextLibraries]_vars

----------------------------------------------------------------------------
(* social_media_api/posts: PostViewSet and CommentViewSet.  A Post row is  *)
(* [id, author, title, content], a Comment row [id, post, author,          *)
(* content]; the timestamps of the rows are left out.  A request names     *)
(* the view set, the method, request.user (AnonymousUser or the id of an   *)
(* account), the <pk> of the URL and the body.                             *)

MaxPosts == 2       \* Post rows ever inserted (ids 1..MaxPosts)

\* Comment rows ever inserted
MaxComments == MaxPosts - 1

AccountIds == {a.id : a \in accounts}

PostIds == {x.id : x \in posts}

CommentIds == {x.id : x \in comments}

PostById(pk) == CHOOSE x \in posts : x.id = pk

CommentById(pk) == CHOOSE x \in comments : x.id = pk

\* permissions.IsAuthenticated.has_permission
IsAuthenticated(user) == user \in AccountIds

\* IsOwnerOrReadOnly that lets every method of every user pass
IsOwnerOrReadOnly_allow_all(method, user, obj) == TRUE

\* IsOwnerOrReadOnly.has_object_permission
IsOwnerOrReadOnly(method, user, obj) ==
    IF method \in SAFE_METHODS THEN TRUE ELSE obj.author = user

\* a required text field of a serializer
TextFieldErrors(name, value, partial) ==
    IF value = <<>> THEN IF partial THEN NoErrors ELSE {<<name, "required">>}
    ELSE IF Strip(value[1]) = <<>> THEN {<<name, "blank">>}
    ELSE NoErrors

\* the fields of Post a request must give: title and content
PostSerializerErrors(data, partial) ==
    TextFieldErrors("title", data.title, partial)
        \cup TextFieldErrors("content", data.content, partial)

\* the fields of Comment a request must give: post, which must exist, and
\* content
CommentSerializerErrors(data, partial) ==
    (IF data.post = <<>> THEN IF partial THEN NoErrors ELSE {<<"post", "required">>}
     ELSE IF data.post[1] \notin PostIds THEN {<<"post", "does_not_exist">>}
     ELSE NoErrors)
        \cup TextFieldErrors("content", data.content, partial)

\* PostSerializer without author among its read_only_fields
PostSerializer_validated_author_writable(data) ==
    [author |-> data.author, title |-> data.title, content |-> data.content]

\* PostSerializer.validated_data: the read_only_fields of the body are dropped
PostSerializer_validated(data) ==
    [author |-> <<>>, title |-> data.title, content |-> data.content]

\* CommentSerializer.validated_data
CommentSerializer_validated(data) ==
    [author |-> <<>>, post |-> data.post, content |-> data.content]

\* PostSerializer.create, reached from serializer.save(author=request.user):
\* validated_data['author'] = request.user
PostSerializer_create(validated, user) ==
    [id |-> nextPostId, author |-> user, title |-> Strip(validated.title[1]),
     content |-> Strip(validated.content[1])]

\* ModelSerializer.update: the validated fields are written over the instance
PostSerializer_update(instance, validated) ==
    [id |-> instance.id,
     author |-> IF validated.author = <<>> THEN instance.author
                ELSE validated.author[1],
     title |-> IF validated.title = <<>> THEN instance.title
               ELSE Strip(validated.title[1]),
     content |-> IF validated.content = <<>> THEN instance.content
                 ELSE Strip(validated.content[1])]

\* CommentSerializer.create
CommentSerializer_create(validated, user) ==
    [id |-> nextCommentId, post |-> validated.post[1], author |-> user,
     content |-> Strip(validated.content[1])]

CommentSerializer_update(instance, validated) ==
    [id |-> instance.id,
     post |-> IF validated.post = <<>> THEN instance.post ELSE validated.post[1],
     author |-> IF validated.author = <<>> THEN instance.author
                ELSE validated.author[1],
     content |-> IF validated.content = <<>> THEN instance.content
                 ELSE Strip(validated.content[1])]

\* the comments that go with a deleted post
CascadeComments(pk) == {c \in comments : c.post = pk}

\* what the actions of the posts application leave alone
PostsFrame ==
    UNCHANGED <<bookVars, blogVars, req, libraryVars, accounts, tokens, nextAccountId,
                nextTokenKey, calls>>

\* POST /posts/: perform_create saves the serializer with author=request.user
PostViewSet_create ==
    /\ Pending /\ req.view = "posts" /\ req.method = "POST"
    /\ LET errors == PostSerializerErrors(req.data, FALSE)
           row == PostSerializer_create(PostSerializer_validated(req.data), req.user)
       IN  IF ~IsAuthenticated(req.user)
           THEN /\ resp' = Response(NotAuthenticatedStatus, NoErrors, <<>>)
                /\ UNCHANGED <<posts, nextPostId>>
           ELSE IF errors # NoErrors
           THEN /\ resp' = Response(400, errors, <<>>)
                /\ UNCHANGED <<posts, nextPostId>>
           ELSE /\ posts' = posts \cup {row}
                /\ nextPostId' = nextPostId + 1
                /\ resp' = Response(201, NoErrors, <<row>>)
    /\ UNCHANGED <<comments, nextCommentId>>
    /\ PostsFrame

\* GET /posts/<pk>/
PostViewSet_retrieve ==
    /\ Pending /\ req.view = "posts" /\ req.method = "GET"
    /\ resp' = IF ~IsAuthenticated(req.user)
               THEN Response(NotAuthenticatedStatus, NoErrors, <<>>)
               ELSE IF req.pk \notin PostIds THEN Response(404, NoErrors, <<>>)
               ELSE IF ~IsOwnerOrReadOnly(req.method, req.user, PostById(req.pk))
               THEN Response(403, NoErrors, <<>>)
               ELSE Response(200, NoErrors, <<PostById(req.pk)>>)
    /\ UNCHANGED <<posts, nextPostId, comments, nextCommentId>>
    /\ PostsFrame

\* PUT (partial = FALSE) and PATCH (partial = TRUE) /posts/<pk>/
PostViewSet_write(partial) ==
    /\ IF ~IsAuthenticated(req.user)
       THEN /\ resp' = Response(NotAuthenticatedStatus, NoErrors, <<>>)
            /\ UNCHANGED posts
       ELSE IF req.pk \notin PostIds
       THEN /\ resp' = Response(404, NoErrors, <<>>)
            /\ UNCHANGED posts
       ELSE LET instance == PostById(req.pk)
                errors == PostSerializerErrors(req.data, partial)
                row == PostSerializer_update(instance, PostSerializer_validated(req.data))
            IN  IF ~IsOwnerOrReadOnly(req.method, req.user, instance)
                THEN /\ resp' = Response(403, NoErrors, <<>>)
                     /\ UNCHANGED posts
                ELSE IF errors # NoErrors
                THEN /\ resp' = Response(400, errors, <<>>)
                     /\ UNCHANGED posts
                ELSE /\ posts' = (posts \ {instance}) \cup {row}
                     /\ resp' = Response(200, NoErrors, <<row>>)
    /\ UNCHANGED <<nextPostId, comments, nextCommentId>>
    /\ PostsFrame

PostViewSet_update ==
    /\ Pending /\ req.view = "posts" /\ req.method = "PUT"
    /\ PostViewSet_write(FALSE)

PostViewSet_partial_update ==
    /\ Pending /\ req.view = "posts" /\ req.method = "PATCH"
    /\ PostViewSet_write(TRUE)

\* DELETE /posts/<pk>/: the comments of the post go with it
PostViewSet_destroy ==
    /\ Pending /\ req.view = "posts" /\ req.method = "DELETE"
    /\ IF ~IsAuthenticated(req.user)
       THEN /\ resp' = Response(NotAuthenticatedStatus, NoErrors, <<>>)
            /\ UNCHANGED <<posts, comments>>
       ELSE IF req.pk \notin PostIds
       THEN /\ resp' = Response(404, NoErrors, <<>>)
            /\ UNCHANGED <<posts, comments>>
       ELSE IF ~IsOwnerOrReadOnly(req.method, req.user, PostById(req.pk))
       THEN /\ resp' = Response(403, NoErrors, <<>>)
            /\ UNCHANGED <<posts, comments>>
       ELSE /\ posts' = posts \ {PostById(req.pk)}
            /\ comments' = comments \ CascadeComments(req.pk)
            /\ resp' = Response(204, NoErrors, <<>>)
    /\ UNCHANGED <<nextPostId, nextCommentId>>
    /\ PostsFrame

\* POST /comments/
CommentViewSet_create ==
    /\ Pending /\ req.view = "comments" /\ req.method = "POST"
    /\ LET errors == CommentSerializerErrors(req.data, FALSE)
           row == CommentSerializer_create(CommentSerializer_validated(req.data), req.user)
       IN  IF ~IsAuthenticated(req.user)
           THEN /\ resp' = Response(NotAuthenticatedStatus, NoErrors, <<>>)
                /\ UNCHANGED <<comments, nextCommentId>>
           ELSE IF errors # NoErrors
           THEN /\ resp' = Response(400, errors, <<>>)
                /\ UNCHANGED <<comments, nextCommentId>>
           ELSE /\ comments' = comments \cup {row}
                /\ nextCommentId' = nextCommentId + 1
                /\ resp' = Response(201, NoErrors, <<row>>)
    /\ UNCHANGED <<posts, nextPostId>>
    /\ PostsFrame

\* GET /comments/<pk>/
CommentViewSet_retrieve ==
    /\ Pending /\ req.view = "comments" /\ req.method = "GET"
    /\ resp' = IF ~IsAuthenticated(req.user)
               THEN Response(NotAuthenticatedStatus, NoErrors, <<>>)
               ELSE IF req.pk \notin CommentIds THEN Response(404, NoErrors, <<>>)
               ELSE IF ~IsOwnerOrReadOnly(req.method, req.user, CommentById(req.pk))
               THEN Response(403, NoErrors, <<>>)
               ELSE Response(200, NoErrors, <<CommentById(req.pk)>>)
    /\ UNCHANGED <<posts, nextPostId, comments, nextCommentId>>
    /\ PostsFrame

\* PUT and PATCH /comments/<pk>/
CommentViewSet_write(partial) ==
    /\ IF ~IsAuthenticated(req.user)
       THEN /\ resp' = Response(NotAuthenticatedStatus, NoErrors, <<>>)
            /\ UNCHANGED comments
       ELSE IF req.pk \notin CommentIds
       THEN /\ resp' = Response(404, NoErrors, <<>>)
            /\ UNCHANGED comments
       ELSE LET instance == CommentById(req.pk)
                errors == CommentSerializerErrors(req.data, partial)
                row == CommentSerializer_update(instance,
                                                CommentSerializer_validated(req.data))
            IN  IF ~IsOwnerOrReadOnly(req.method, req.user, instance)
                THEN /\ resp' = Response(403, NoErrors, <<>>)
                     /\ UNCHANGED comments
                ELSE IF errors # NoErrors
                THEN /\ resp' = Response(400, errors, <<>>)
                     /\ UNCHANGED comments
                ELSE /\ comments' = (comments \ {instance}) \cup {row}
                     /\ resp' = Response(200, NoErrors, <<row>>)
    /\ UNCHANGED <<posts, nextPostId, nextCommentId>>
    /\ PostsFrame

CommentViewSet_update ==
    /\ Pending /\ req.view = "comments" /\ req.method = "PUT"
    /\ CommentViewSet_write(FALSE)

CommentViewSet_partial_update ==
    /\ Pending /\ req.view = "comments" /\ req.method = "PATCH"
    /\ CommentViewSet_write(TRUE)

\* DELETE /comments/<pk>/
CommentViewSet_destroy ==
    /\ Pending /\ req.view = "comments" /\ req.method = "DELETE"
    /\ IF ~IsAuthenticated(req.user)
       THEN /\ resp' = Response(NotAuthenticatedStatus, NoErrors, <<>>)
            /\ UNCHANGED comments
       ELSE IF req.pk \notin CommentIds
       THEN /\ resp' = Response(404, NoErrors, <<>>)
            /\ UNCHANGED comments
       ELSE IF ~IsOwnerOrReadOnly(req.method, req.user, CommentById(req.pk))
       THEN /\ resp' = Response(403, NoErrors, <<>>)
            /\ UNCHANGED comments
       ELSE /\ comments' = comments \ {CommentById(req.pk)}
            /\ resp' = Response(204, NoErrors, <<>>)
    /\ UNCHANGED <<posts, nextPostId, nextCommentId>>
    /\ PostsFrame

----------------------------------------------------------------------------
(* SpecPosts: any sequence of requests of two accounts and of an           *)
(* anonymous client to the two view sets, from a database with the two     *)
(* accounts, no post and no comment.                                       *)

PostAccounts ==
    {[id |-> 1, username |-> <<97>>, password |-> <<>>, email |-> <<>>,
      bio |-> <<>>, date_joined |-> 1],
     [id |-> 2, username |-> <<98>>, password |-> <<>>, email |-> <<>>,
      bio |-> <<>>, date_joined |-> 2]}

PostClients == {AnonymousUser} \cup {a.id : a \in PostAccounts}

\* bodies for a post: a full one, a full one naming account 1 as author,
\* one without a title, and one of the author alone
PostBodies ==
    {[author |-> <<>>, title |-> <<<<84>>>>, content |-> <<<<120>>>>],
     [author |-> <<1>>, title |-> <<<<84>>>>, content |-> <<<<121>>>>],
     [author |-> <<1>>, title |-> <<>>, content |-> <<<<121>>>>],
     [author |-> <<1>>, title |-> <<>>, content |-> <<>>]}

\* bodies for a comment: on post 1, on post 2 naming account 1 as author,
\* and of author and content alone
CommentBodies ==
    {[author |-> <<>>, post |-> <<1>>, content |-> <<<<120>>>>],
     [author |-> <<1>>, post |-> <<2>>, content |-> <<<<120>>>>],
     [author |-> <<1>>, post |-> <<>>, content |-> <<<<121>>>>]}

NoBody == [author |-> <<>>]

PostsRequest(view, method, user, pk, data) ==
    [view |-> view, method |-> method, user |-> user, pk |-> pk, data |-> data]

ViewSetRequests(view, ids, bodies) ==
    {PostsRequest(view, "POST", u, 0, b) : u \in PostClients, b \in bodies}
    \cup {PostsRequest(view, m, u, pk, b) :
            m \in {"PUT", "PATCH"}, u \in PostClients, pk \in ids, b \in bodies}
    \cup {PostsRequest(view, m, u, pk, NoBody) :
            m \in {"GET", "DELETE"}, u \in PostClients, pk \in ids}

\* the requests of the clients; an anonymous client sends the bodies that
\* name no author only
PostsRequests ==
    {r \in ViewSetRequests("posts", 1..MaxPosts, PostBodies)
            \cup ViewSetRequests("comments", 1..MaxComments, CommentBodies) :
        r.user = AnonymousUser => r.data.author = <<>>}

\* The client sends a request to a view set
PostsSend(r) ==
    /\ Idle
    /\ (r.method = "POST" /\ r.view = "posts") => nextPostId <= MaxPosts
    /\ (r.method = "POST" /\ r.view = "comments") => nextCommentId <= MaxComments
    /\ req' = r
    /\ resp' = NoResponse
    /\ UNCHANGED <<bookVars, blogVars, libraryVars, socialVars>>

InitPosts ==
    /\ authors = {}
    /\ books = {}
    /\ nextAuthorId = 1
    /\ nextBookId = 1
    /\ current_year = StartYear
    /\ req = NoRequest
    /\ resp = NoResponse
    /\ LibraryEmpty
    /\ accounts = PostAccounts
    /\ calls = [w \in Workers |-> NoCall]
    /\ tokens = {}
    /\ nextAccountId = 3
    /\ nextTokenKey = 1
    /\ posts = {}
    /\ comments = {}
    /\ nextPostId = 1
    /\ nextCommentId = 1
    /\ BlogEmpty

NextPosts ==
    \/ \E r \in PostsRequests : PostsSend(r)
    \/ PostViewSet_create
    \/ PostViewSet_retrieve
    \/ PostViewSet_update
    \/ PostViewSet_partial_update
    \/ PostViewSet_destroy
    \/ CommentViewSet_create
    \/ CommentViewSet_retrieve
    \/ CommentViewSet_update
    \/ CommentViewSet_partial_update
    \/ CommentViewSet_destroy
    \/ Close

SpecPosts == InitPosts /\ [][NextPosts]_vars

----------------------------------------------------------------------------
(* social_media_api/accounts: registration and login.  The two views are   *)
(* served by the workers side by side, and each view is divided at its     *)
(* database statements: a statement of one worker may come between any two *)
(* statements of the other.  The unique constraints of the tables          *)
(* (CustomUser.username, Token.user) hold at every insert.                 *)

MaxAccounts == 2    \* CustomUser rows ever inserted (ids 1..MaxAccounts)

\* django.contrib.auth.hashers.make_password, the salt left out
make_password(raw) == <<"pbkdf2_sha256", raw>>

\* django.contrib.auth.hashers.check_password
check_password(raw, encoded) == encoded = make_password(raw)

AccountsNamed(username) == {a \in accounts : a.username = username}

AccountById(pk) == CHOOSE a \in accounts : a.id = pk

\* Token.objects.filter(user=user)
TokensOf(user) == {t \in tokens : t.user = user}

\* an insert into Token that never meets the unique constraint
TokenUniqueViolation_off(user) == FALSE

\* the OneToOneField Token.user: an insert of a second token for a user
\* raises IntegrityError
TokenUniqueViolation(user) == TokensOf(user) # {}

\* a required CharField of a serializer of accounts
RequiredErrors(data, name) ==
    IF data[name] = <<>> THEN {<<name, "required">>}
    ELSE IF Strip(data[name][1]) = <<>> THEN {<<name, "blank">>}
    ELSE NoErrors

\* UserRegistrationSerializer without validate()
UserRegistrationSerializerErrors_fields_only(data) ==
    RequiredErrors(data, "username") \cup RequiredErrors(data, "email")
        \cup RequiredErrors(data, "password")
        \cup RequiredErrors(data, "password_confirm")
        \cup (IF data.username # <<>>
                 /\ AccountsNamed(Strip(data.username[1])) # {}
              THEN {<<"username", "unique">>} ELSE NoErrors)

\* UserRegistrationSerializer.is_valid: the fields, the UniqueValidator of
\* username, then validate()
UserRegistrationSerializerErrors(data) ==
    LET fields == RequiredErrors(data, "username") \cup RequiredErrors(data, "email")
                    \cup RequiredErrors(data, "password")
                    \cup RequiredErrors(data, "password_confirm")
                    \cup (IF data.username # <<>>
                             /\ AccountsNamed(Strip(data.username[1])) # {}
                          THEN {<<"username", "unique">>} ELSE NoErrors)
    IN  IF fields # NoErrors THEN fields
        ELSE IF Strip(data.password[1]) # Strip(data.password_confirm[1])
        THEN {<<"password", "mismatch">>}
        ELSE NoErrors

\* UserLoginSerializer.is_valid
UserLoginSerializerErrors(data) ==
    RequiredErrors(data, "username") \cup RequiredErrors(data, "password")

\* {'error': 'Invalid credentials'}
InvalidCredentials == {<<"error", "Invalid credentials">>}

\* authenticate that does not check the password
authenticate_any_password(username, password) ==
    IF AccountsNamed(username) = {} THEN 0
    ELSE (CHOOSE a \in AccountsNamed(username) : TRUE).id

\* django.contrib.auth.authenticate: the id of the user, 0 for None
authenticate(username, password) ==
    LET found == {a \in AccountsNamed(username) : check_password(password, a.password)}
    IN  IF found = {} THEN 0 ELSE (CHOOSE a \in found : TRUE).id

\* the body of the responses of the two views
UserBody(user, token) ==
    <<[id |-> user.id, username |-> user.username, email |-> user.email,
       token |-> token.key]>>

\* the worker answers
Answer(w, status, errors, body) ==
    calls' = [calls EXCEPT ![w].pc = "done",
                           ![w].resp = Response(status, errors, body)]

\* what the actions of the accounts application leave alone
AccountsFrame ==
    UNCHANGED <<bookVars, blogVars, req, resp, libraryVars, posts, comments, nextPostId,
                nextCommentId>>

\* registrations that have not inserted their user yet
RegistrationsAhead ==
    {w \in Workers : calls[w].view = "register"
                        /\ calls[w].pc \in {"is_valid", "create_user"}}

\* A worker takes a request to /register/ or /login/
Call(w, view, data) ==
    /\ calls[w] = NoCall
    /\ view = "register" =>
           nextAccountId + Cardinality(RegistrationsAhead) <= MaxAccounts
    /\ calls' = [calls EXCEPT ![w] = [view |-> view, data |-> data,
                                      pc |-> "is_valid", user |-> 0,
                                      resp |-> NoResponse]]
    /\ UNCHANGED <<accounts, tokens, nextAccountId, nextTokenKey>>
    /\ AccountsFrame

\* UserRegistrationView.create: serializer.is_valid(raise_exception=True)
UserRegistrationView_is_valid(w) ==
    /\ calls[w].view = "register" /\ calls[w].pc = "is_valid"
    /\ LET errors == UserRegistrationSerializerErrors(calls[w].data)
       IN  IF errors # NoErrors THEN Answer(w, 400, errors, <<>>)
           ELSE calls' = [calls EXCEPT ![w].pc = "create_user"]
    /\ UNCHANGED <<accounts, tokens, nextAccountId, nextTokenKey>>
    /\ AccountsFrame

\* UserRegistrationSerializer.create: User.objects.create_user(...); the
\* insert raises IntegrityError when the username has been taken meanwhile
UserRegistrationSerializer_create_user(w) ==
    /\ calls[w].view = "register" /\ calls[w].pc = "create_user"
    /\ LET data == calls[w].data
           user == [id |-> nextAccountId, username |-> Strip(data.username[1]),
                    password |-> make_password(Strip(data.password[1])),
                    email |-> Strip(data.email[1]), bio |-> <<>>,
                    date_joined |-> nextAccountId]
       IN  IF AccountsNamed(user.username) # {}
           THEN /\ Answer(w, 500, NoErrors, <<>>)
                /\ UNCHANGED <<accounts, nextAccountId>>
           ELSE /\ accounts' = accounts \cup {user}
                /\ nextAccountId' = nextAccountId + 1
                /\ calls' = [calls EXCEPT ![w].pc = "create_token",
                                          ![w].user = user.id]
    /\ UNCHANGED <<tokens, nextTokenKey>>
    /\ AccountsFrame

\* UserRegistrationSerializer.create: Token.objects.create(user=user)
UserRegistrationSerializer_create_token(w) ==
    /\ calls[w].view = "register" /\ calls[w].pc = "create_token"
    /\ IF TokenUniqueViolation(calls[w].user)
       THEN /\ Answer(w, 500, NoErrors, <<>>)
            /\ UNCHANGED <<tokens, nextTokenKey>>
       ELSE /\ tokens' = tokens \cup {[key |-> nextTokenKey, user |-> calls[w].user]}
            /\ nextTokenKey' = nextTokenKey + 1
            /\ calls' = [calls EXCEPT ![w].pc = "respond"]
    /\ UNCHANGED <<accounts, nextAccountId>>
    /\ AccountsFrame

\* UserRegistrationView.create: Token.objects.get(user=user) and the
\* response
UserRegistrationView_respond(w) ==
    /\ calls[w].view = "register" /\ calls[w].pc = "respond"
    /\ \E token \in TokensOf(calls[w].user) :
            Answer(w, 201, NoErrors, UserBody(AccountById(calls[w].user), token))
    /\ UNCHANGED <<accounts, tokens, nextAccountId, nextTokenKey>>
    /\ AccountsFrame

\* UserLoginView.post: is_valid and authenticate
UserLoginView_authenticate(w) ==
    /\ calls[w].view = "login" /\ calls[w].pc = "is_valid"
    /\ LET data == calls[w].data
           errors == UserLoginSerializerErrors(data)
           user == authenticate(Strip(data.username[1]), Strip(data.password[1]))
       IN  IF errors # NoErrors THEN Answer(w, 400, errors, <<>>)
           ELSE IF user = 0 THEN Answer(w, 401, InvalidCredentials, <<>>)
           ELSE calls' = [calls EXCEPT ![w].pc = "get", ![w].user = user]
    /\ UNCHANGED <<accounts, tokens, nextAccountId, nextTokenKey>>
    /\ AccountsFrame

\* Token.objects.get_or_create(user=user): the lookup
UserLoginView_get(w) ==
    /\ calls[w].view = "login" /\ calls[w].pc = "get"
    /\ IF TokensOf(calls[w].user) = {}
       THEN calls' = [calls EXCEPT ![w].pc = "create"]
       ELSE \E token \in TokensOf(calls[w].user) :
                Answer(w, 200, NoErrors, UserBody(AccountById(calls[w].user), token))
    /\ UNCHANGED <<accounts, tokens, nextAccountId, nextTokenKey>>
    /\ AccountsFrame

\* Token.objects.get_or_create(user=user): the insert, and on IntegrityError
\* the lookup again
UserLoginView_create(w) ==
    /\ calls[w].view = "login" /\ calls[w].pc = "create"
    /\ IF TokenUniqueViolation(calls[w].user)
       THEN /\ \E token \in TokensOf(calls[w].user) :
                    Answer(w, 200, NoErrors,
                           UserBody(AccountById(calls[w].user), token))
            /\ UNCHANGED <<tokens, nextTokenKey>>
       ELSE LET token == [key |-> nextTokenKey, user |-> calls[w].user]
            IN  /\ tokens' = tokens \cup {token}
                /\ nextTokenKey' = nextTokenKey + 1
                /\ Answer(w, 200, NoErrors,
                          UserBody(AccountById(calls[w].user), token))
    /\ UNCHANGED <<accounts, nextAccountId>>
    /\ AccountsFrame

\* CustomUserAdmin: the add form of the admin site makes a user, and no
\* token
CustomUserAdmin_add(username, password) ==
    /\ nextAccountId + Cardinality(RegistrationsAhead) <= MaxAccounts
    /\ AccountsNamed(username) = {}
    /\ accounts' = accounts \cup {[id |-> nextAccountId, username |-> username,
                                   password |-> make_password(password),
                                   email |-> <<>>, bio |-> <<>>,
                                   date_joined |-> nextAccountId]}
    /\ nextAccountId' = nextAccountId + 1
    /\ UNCHANGED <<tokens, nextTokenKey, calls>>
    /\ AccountsFrame

\* The client has taken the response of the worker
Return(w) ==
    /\ calls[w].pc = "done"
    /\ calls' = [calls EXCEPT ![w] = NoCall]
    /\ UNCHANGED <<accounts, tokens, nextAccountId, nextTokenKey>>
    /\ AccountsFrame

----------------------------------------------------------------------------
(* SpecTokens: registrations, logins and admin additions of users, in any  *)
(* order and interleaving, from an empty database.                        *)

\* user names "a" and "b", passwords "p", " p" and "q", one e-mail address
RegistrationData(username, email, password, password_confirm) ==
    [username |-> username, email |-> email, password |-> password,
     password_confirm |-> password_confirm]

EmailInput == <<<<97, 64, 98, 46, 99>>>>

RegistrationInputs ==
    {RegistrationData(<<<<97>>>>, EmailInput, <<<<112>>>>, <<<<112>>>>),
     RegistrationData(<<<<97>>>>, EmailInput, <<<<113>>>>, <<<<113>>>>),
     RegistrationData(<<<<98>>>>, EmailInput, <<<<32, 112>>>>, <<<<112>>>>),
     RegistrationData(<<<<98>>>>, EmailInput, <<<<112>>>>, <<<<113>>>>),
     RegistrationData(<<<<98>>>>, <<>>, <<<<112>>>>, <<<<112>>>>)}

LoginInputs ==
    {[username |-> <<u>>, password |-> <<pw>>] :
        u \in {<<97>>, <<98>>}, pw \in {<<112>>, <<113>>}}
    \cup {[username |-> <<<<98>>>>, password |-> <<>>]}

InitTokens ==
    /\ authors = {}
    /\ books = {}
    /\ nextAuthorId = 1
    /\ nextBookId = 1
    /\ current_year = StartYear
    /\ req = NoRequest
    /\ resp = NoResponse
    /\ LibraryEmpty
    /\ SocialEmpty
    /\ BlogEmpty

NextTokens ==
    \/ \E w \in Workers, data \in RegistrationInputs : Call(w, "register", data)
    \/ \E w \in Workers, data \in LoginInputs : Call(w, "login", data)
    \/ \E w \in Workers : UserRegistrationView_is_valid(w)
    \/ \E w \in Workers : UserRegistrationSerializer_create_user(w)
    \/ \E w \in Workers : UserRegistrationSerializer_create_token(w)
    \/ \E w \in Workers : UserRegistrationView_respond(w)
    \/ \E w \in Workers : UserLoginView_authenticate(w)
    \/ \E w \in Workers : UserLoginView_get(w)
    \/ \E w \in Workers : UserLoginView_create(w)
    \/ \E username \in {<<97>>, <<98>>} : CustomUserAdmin_add(username, <<112>>)
    \/ \E w \in Workers : Return(w)

SpecTokens == InitTokens /\ [][NextTokens]_vars

----------------------------------------------------------------------------
(* social_media_api/accounts: UserProfileView, the profile of the user     *)
(* that asks.  The picture and the counts of followers of the profile are  *)
(* left out: nothing in the sources writes them.                           *)

\* EmailField: something, '@', something, '.', something
IsEmail(s) ==
    \E i, j \in 1..Len(s) :
        /\ s[i] = 64 /\ s[j] = 46
        /\ 1 < i /\ i + 1 < j /\ j < Len(s)
        /\ \A k \in 1..Len(s) : s[k] = 64 => k = i

\* UserProfileSerializer.is_valid: no field is required
UserProfileSerializerErrors(data) ==
    IF data.email # <<>> /\ Strip(data.email[1]) # <<>>
          /\ ~IsEmail(Strip(data.email[1]))
    THEN {<<"email", "invalid">>} ELSE NoErrors

\* UserProfileSerializer.validated_data: read_only_fields are dropped
UserProfileSerializer_validated(data) == [email |-> data.email, bio |-> data.bio]

\* ModelSerializer.update
UserProfileSerializer_update(instance, validated) ==
    [instance EXCEPT
        !.email = IF validated.email = <<>> THEN @ ELSE Strip(validated.email[1]),
        !.bio = IF validated.bio = <<>> THEN @ ELSE Strip(validated.bio[1])]

\* UserProfileSerializer.data
UserProfileSerializer_data(user) ==
    [id |-> user.id, username |-> user.username, email |-> user.email,
     bio |-> user.bio, date_joined |-> user.date_joined]

\* get_object that takes the id the body gives
UserProfileView_get_object_of_body(request) ==
    IF request.data.id # <<>> /\ request.data.id[1] \in AccountIds
    THEN AccountById(request.data.id[1])
    ELSE AccountById(request.user)

\* UserProfileView.get_object: return self.request.user
UserProfileView_get_object(request) == AccountById(request.user)

\* GET /profile/
UserProfileView_get ==
    /\ Pending /\ req.view = "profile" /\ req.method = "GET"
    /\ resp' = IF ~IsAuthenticated(req.user)
               THEN Response(NotAuthenticatedStatus, NoErrors, <<>>)
               ELSE Response(200, NoErrors,
                        <<UserProfileSerializer_data(UserProfileView_get_object(req))>>)
    /\ UNCHANGED <<accounts, tokens, nextAccountId, nextTokenKey, calls>>
    /\ UNCHANGED <<bookVars, blogVars, req, libraryVars, posts, comments, nextPostId,
                   nextCommentId>>

\* PUT and PATCH /profile/
UserProfileView_update ==
    /\ Pending /\ req.view = "profile" /\ req.method \in {"PUT", "PATCH"}
    /\ IF ~IsAuthenticated(req.user)
       THEN /\ resp' = Response(NotAuthenticatedStatus, NoErrors, <<>>)
            /\ UNCHANGED accounts
       ELSE LET instance == UserProfileView_get_object(req)
                errors == UserProfileSerializerErrors(req.data)
                saved == UserProfileSerializer_update(instance,
                             UserProfileSerializer_validated(req.data))
            IN  IF errors # NoErrors
                THEN /\ resp' = Response(400, errors, <<>>)
                     /\ UNCHANGED accounts
                ELSE /\ accounts' = (accounts \ {instance}) \cup {saved}
                     /\ resp' = Response(200, NoErrors,
                                         <<UserProfileSerializer_data(saved)>>)
    /\ UNCHANGED <<tokens, nextAccountId, nextTokenKey, calls>>
    /\ UNCHANGED <<bookVars, blogVars, req, libraryVars, posts, comments, nextPostId,
                   nextCommentId>>

----------------------------------------------------------------------------
(* SpecProfile: any sequence of profile requests of two accounts and of an *)
(* anonymous client.                                                       *)

\* "a" with a@b.c and the bio "i", "b" with b@b.c and the bio "j"
ProfileAccounts ==
    {[id |-> 1, username |-> <<97>>, password |-> make_password(<<112>>),
      email |-> <<97, 64, 98, 46, 99>>, bio |-> <<105>>, date_joined |-> 1],
     [id |-> 2, username |-> <<98>>, password |-> make_password(<<113>>),
      email |-> <<98, 64, 98, 46, 99>>, bio |-> <<106>>, date_joined |-> 2]}

ProfileData(id, username, email, bio, date_joined) ==
    [id |-> id, username |-> username, email |-> email, bio |-> bio,
     date_joined |-> date_joined]

\* bodies: none; one that names account 2 in every read-only field and
\* gives an e-mail address and a bio; an address that is none; a bio alone
\* (with white space around it); an address alone
ProfileBodies ==
    {ProfileData(<<>>, <<>>, <<>>, <<>>, <<>>),
     ProfileData(<<2>>, <<<<98>>>>, <<<<99, 64, 98, 46, 99>>>>, <<<<104>>>>, <<2>>),
     ProfileData(<<>>, <<>>, <<<<120>>>>, <<>>, <<>>),
     ProfileData(<<>>, <<>>, <<>>, <<<<32, 104, 32>>>>, <<>>),
     ProfileData(<<1>>, <<<<122>>>>, <<<<99, 64, 98, 46, 99>>>>, <<>>, <<9>>)}

ProfileRequests ==
    {[view |-> "profile", method |-> m, user |-> u, data |-> d] :
        m \in {"GET", "PUT", "PATCH"}, u \in PostClients, d \in ProfileBodies}

InitProfile ==
    /\ authors = {}
    /\ books = {}
    /\ nextAuthorId = 1
    /\ nextBookId = 1
    /\ current_year = StartYear
    /\ req = NoRequest
    /\ resp = NoResponse
    /\ LibraryEmpty
    /\ accounts = ProfileAccounts
    /\ calls = [w \in Workers |-> NoCall]
    /\ tokens = {}
    /\ nextAccountId = 3
    /\ nextTokenKey = 1
    /\ posts = {}
    /\ comments = {}
    /\ nextPostId = 1
    /\ nextCommentId = 1
    /\ BlogEmpty

NextProfile ==
    \/ \E r \in ProfileRequests : Send(r)
    \/ UserProfileView_get
    \/ UserProfileView_update
    \/ Close

SpecProfile == InitProfile /\ [][NextProfile]_vars

----------------------------------------------------------------------------
(* delete_book of bookshelf (advanced_features_and_security) and of        *)
(* relationship_app (django-models): function views behind                 *)
(* permission_required.  A request names the view, the method, its path,   *)
(* request.user, the permissions that user holds and the <pk> of the URL.  *)
(* A statement that writes is committed as it runs (autocommit).           *)

MaxShelfBooks == 2  \* Book rows of each of the two tables (ids 1..MaxShelfBooks)

\* the names the URLconf can reverse: both includes carry a namespace
URLNames ==
    {"bookshelf:book_list", "bookshelf:add_book", "bookshelf:edit_book",
     "bookshelf:delete_book", "bookshelf:advanced_search",
     "bookshelf:form_example", "relationship_app:register",
     "relationship_app:login", "relationship_app:logout",
     "relationship_app:admin_view", "relationship_app:librarian_view",
     "relationship_app:member_view", "relationship_app:list_books",
     "relationship_app:library_detail"}

PermissionDenied == [status |-> 403, template |-> "", location |-> "", next |-> ""]

Http404 == [status |-> 404, template |-> "", location |-> "", next |-> ""]

\* reverse() finds no pattern of that name: the view raises, the handler
\* answers 500
NoReverseMatch == [status |-> 500, template |-> "", location |-> "", next |-> ""]

\* redirect(to) for the name of a URL pattern
redirect(to) ==
    IF to \in URLNames
    THEN [status |-> 302, template |-> "", location |-> to, next |-> ""]
    ELSE NoReverseMatch

\* user.has_perm(perm): AnonymousUser holds no permission
has_perm(request, perm) ==
    request.user # AnonymousUser /\ perm \in request.perms

\* a decorator that lets every request pass
permission_required_off(request, perm, raise_exception) == "pass"

\* @permission_required(perm, login_url='/login/', raise_exception=...):
\* what the decorator does with the request
permission_required(request, perm, raise_exception) ==
    IF has_perm(request, perm) THEN "pass"
    ELSE IF raise_exception THEN "raise"
    ELSE "login"

\* a Book row of bookshelf, of which the views read the primary key only
bookshelf_Book(pk) == [id |-> pk]

\* get_object_or_404(Book, pk=pk): the rows found
BooksWithId(table, pk) == {b \in table : b.id = pk}

\* what the delete views leave alone
DeleteFrame ==
    UNCHANGED <<bookVars, blogVars, req, socialVars, users, profiles, nextUserId,
                nextProfileId, libraries, librarians, nextLibraryId,
                nextLibrarianId, nextLibraryBookId>>

\* bookshelf.views.delete_book
bookshelf_delete_book ==
    /\ Pending /\ req.view = "bookshelf.delete_book"
    /\ LET gate == permission_required(req, "relationship_app.can_delete", TRUE)
           found == BooksWithId(bookshelf_books, req.pk)
       IN  IF gate # "pass"
           THEN /\ resp' = IF gate = "raise" THEN PermissionDenied
                           ELSE redirect_to_login(req.path)
                /\ UNCHANGED bookshelf_books
           ELSE IF found = {}
           THEN resp' = Http404 /\ UNCHANGED bookshelf_books
           ELSE IF req.method = "POST"
           THEN /\ bookshelf_books' = bookshelf_books \ found
                /\ resp' = redirect("book_list")
           ELSE /\ resp' = render("relationship_app/delete_confirm.html")
                /\ UNCHANGED bookshelf_books
    /\ UNCHANGED library_books
    /\ DeleteFrame

\* relationship_app.views.delete_book
relationship_app_delete_book ==
    /\ Pending /\ req.view = "relationship_app.delete_book"
    /\ LET gate == permission_required(req, "relationship_app.can_delete_book", FALSE)
           found == BooksWithId(library_books, req.pk)
       IN  IF gate # "pass"
           THEN /\ resp' = IF gate = "raise" THEN PermissionDenied
                           ELSE redirect_to_login(req.path)
                /\ UNCHANGED library_books
           ELSE IF found = {}
           THEN resp' = Http404 /\ UNCHANGED library_books
           ELSE IF req.method = "POST"
           THEN /\ library_books' = library_books \ found
                /\ resp' = redirect("relationship_app:list_books")
           ELSE /\ resp' = render("relationship_app/delete_book.html")
                /\ UNCHANGED library_books
    /\ UNCHANGED bookshelf_books
    /\ DeleteFrame

\* the permissions a user may hold
DeletePermissions ==
    {"relationship_app.can_delete", "relationship_app.can_delete_book"}

\* the requests to the two views: GET, POST and DELETE, by nobody and by a
\* user with any of the permissions, for each id and one no book has
DeleteRequests ==
    {[view |-> v, method |-> m, path |-> "delete/", user |-> u, perms |-> p,
      pk |-> pk] :
        v \in {"bookshelf.delete_book", "relationship_app.delete_book"},
        m \in {"GET", "POST", "DELETE"},
        u \in {AnonymousUser, 1},
        p \in SUBSET DeletePermissions,
        pk \in 1..(MaxShelfBooks + 1)}

\* SpecDelete: any sequence of requests to the two views, from one library
\* with MaxShelfBooks books in its inventory and as many books in bookshelf
InitDelete ==
    /\ authors = {}
    /\ books = {}
    /\ nextAuthorId = 1
    /\ nextBookId = 1
    /\ current_year = StartYear
    /\ req = NoRequest
    /\ resp = NoResponse
    /\ users = {}
    /\ profiles = {}
    /\ nextUserId = 1
    /\ nextProfileId = 1
    /\ libraries = {1}
    /\ librarians = {}
    /\ library_books = {[id |-> i, library |-> 1] : i \in 1..MaxShelfBooks}
    /\ nextLibraryId = 2
    /\ nextLibrarianId = 1
    /\ nextLibraryBookId = MaxShelfBooks + 1
    /\ bookshelf_books = {bookshelf_Book(i) : i \in 1..MaxShelfBooks}
    /\ SocialEmpty
    /\ BlogEmpty

NextDelete ==
    \/ \E r \in DeleteRequests : Send(r)
    \/ bookshelf_delete_book
    \/ relationship_app_delete_book
    \/ Close

SpecDelete == InitDelete /\ [][NextDelete]_vars

----------------------------------------------------------------------------
(* django_blog: PostForm.save and the tags of a post.  A Tag row is        *)
(* [id, name]; Post.tags is a many-to-many table of rows [post, tag].  The *)
(* posts are 1..MaxBlogPosts; their titles and contents are left out.  The *)
(* statements of save are operators on the three values a statement can    *)
(* change: db = [blog_tags, post_tags, nextTagId].                         *)

MaxBlogPosts == 2   \* Post rows of the blog (ids 1..MaxBlogPosts)

\* the tables as the statements of save see them
BlogDb == [blog_tags |-> blog_tags, post_tags |-> post_tags, nextTagId |-> nextTagId]

\* tags = forms.CharField(required=False): the cleaned value is stripped
CharField_clean(value) == Strip(value)

\* a list of names that keeps the white space around each name
tag_names_unstripped(tags) == SelectSeq(SplitOn(tags, 44), LAMBDA n : n # <<>>)

\* [name.strip() for name in tags.split(',') if name.strip()]
tag_names(tags) ==
    LET pieces == SplitOn(tags, 44)
    IN  SelectSeq([i \in 1..Len(pieces) |-> Strip(pieces[i])], LAMBDA n : n # <<>>)

\* instance.tags.clear()
tags_clear(db, post) ==
    [db EXCEPT !.post_tags = {r \in @ : r.post # post}]

\* Tag.objects.get_or_create(name=name): the row is inserted when no row
\* has the name
Tag_get_or_create(db, name) ==
    IF \E t \in db.blog_tags : t.name = name THEN db
    ELSE [db EXCEPT !.blog_tags = @ \cup {[id |-> db.nextTagId, name |-> name]},
                    !.nextTagId = @ + 1]

\* the tag that get_or_create returns
TagNamed(db, name) == CHOOSE t \in db.blog_tags : t.name = name

\* instance.tags.add(tag)
tags_add(db, post, tag) ==
    [db EXCEPT !.post_tags = @ \cup {[post |-> post, tag |-> tag]}]

\* for tag_name in tag_names: get_or_create, add
RECURSIVE AddTags(_, _, _)
AddTags(db, post, names) ==
    IF names = <<>> THEN db
    ELSE LET name == Lower(Head(names))
             created == Tag_get_or_create(db, name)
         IN  AddTags(tags_add(created, post, TagNamed(created, name).id), post,
                     Tail(names))

\* PostForm.save(commit=True) of the form of a stored post, from "Handle
\* tags" on: data is the tags field as submitted
PostForm_save_tags(db, post, data) ==
    LET tags == CharField_clean(data)
    IN  IF tags # <<>> THEN AddTags(tags_clear(db, post), post, tag_names(tags))
        ELSE tags_clear(db, post)

\* the views of the blog leave the other projects alone
BlogFrame == UNCHANGED <<bookVars, libraryVars, socialVars>>

\* a form is saved while no other is: the whole of save in one step
PostForm_save ==
    /\ Pending /\ req.view = "PostForm.save"
    /\ \A w \in Workers : saves[w] = NoSave
    /\ LET db == PostForm_save_tags(BlogDb, req.post, req.tags)
       IN  /\ blog_tags' = db.blog_tags
           /\ post_tags' = db.post_tags
           /\ nextTagId' = db.nextTagId
    /\ resp' = [status |-> 302, template |-> "", location |-> "post-detail",
                next |-> ""]
    /\ UNCHANGED <<req, saves>>
    /\ BlogFrame

\* the tags fields submitted: none; separators and blanks only; "A, b";
\* "a,A,"; " c "; "b"
TagInputs ==
    {<<>>, <<44, 32, 44>>, <<65, 44, 32, 98>>, <<97, 44, 65, 44>>,
     <<32, 99, 32>>, <<98>>}

SaveRequests ==
    {[view |-> "PostForm.save", post |-> p, tags |-> t] :
        p \in 1..MaxBlogPosts, t \in TagInputs}

\* SpecTags: forms of the posts saved one after another, from a database
\* without a tag
InitTags == Init

NextTags ==
    \/ \E r \in SaveRequests : Send(r)
    \/ PostForm_save
    \/ Close

SpecTags == InitTags /\ [][NextTags]_vars

----------------------------------------------------------------------------
(* PostForm.save by two workers side by side: each statement of save that  *)
(* reaches the database is a step, and a statement of one worker may come  *)
(* between any two statements of the other.                                *)

\* what a step of save leaves alone
SaveFrame == UNCHANGED <<req, resp>> /\ BlogFrame

\* the form is valid and save is entered: instance.save()
PostForm_begin(w, post, data) ==
    /\ Idle
    /\ saves[w] = NoSave
    /\ saves' = [saves EXCEPT ![w] =
                    [pc |-> "clear", post |-> post, tags |-> data,
                     names |-> <<>>, tag |-> 0]]
    /\ UNCHANGED <<blog_tags, post_tags, nextTagId>>
    /\ SaveFrame

\* instance.tags.clear(), in either branch
PostForm_clear(w) ==
    /\ saves[w].pc = "clear"
    /\ LET tags == CharField_clean(saves[w].tags)
           names == IF tags # <<>> THEN tag_names(tags) ELSE <<>>
       IN  /\ post_tags' = tags_clear(BlogDb, saves[w].post).post_tags
           /\ saves' = [saves EXCEPT ![w].names = names,
                                     ![w].pc = IF names = <<>> THEN "done"
                                               ELSE "get_or_create"]
    /\ UNCHANGED <<blog_tags, nextTagId>>
    /\ SaveFrame

\* tag, created = Tag.objects.get_or_create(name=tag_name.lower())
PostForm_get_or_create(w) ==
    /\ saves[w].pc = "get_or_create"
    /\ LET name == Lower(Head(saves[w].names))
           db == Tag_get_or_create(BlogDb, name)
       IN  /\ blog_tags' = db.blog_tags
           /\ nextTagId' = db.nextTagId
           /\ saves' = [saves EXCEPT ![w].tag = TagNamed(db, name).id,
                                     ![w].pc = "add"]
    /\ UNCHANGED post_tags
    /\ SaveFrame

\* instance.tags.add(tag), and the next turn of the loop
PostForm_add(w) ==
    /\ saves[w].pc = "add"
    /\ post_tags' = tags_add(BlogDb, saves[w].post, saves[w].tag).post_tags
    /\ saves' = [saves EXCEPT ![w].names = Tail(@),
                              ![w].pc = IF Tail(saves[w].names) = <<>> THEN "done"
                                        ELSE "get_or_create"]
    /\ UNCHANGED <<blog_tags, nextTagId>>
    /\ SaveFrame

\* return instance
PostForm_return(w) ==
    /\ saves[w].pc = "done"
    /\ saves' = [saves EXCEPT ![w] = NoSave]
    /\ UNCHANGED <<blog_tags, post_tags, nextTagId>>
    /\ SaveFrame

\* the tags fields of the concurrent saves: none, "a", "B, a"
RaceInputs == {<<>>, <<97>>, <<66, 44, 32, 97>>}

InitTagRace == Init

NextTagRace ==
    \E w \in Workers :
        \/ \E post \in 1..MaxBlogPosts, data \in RaceInputs :
               PostForm_begin(w, post, data)
        \/ PostForm_clear(w)
        \/ PostForm_get_or_create(w)
        \/ PostForm_add(w)
        \/ PostForm_return(w)

SpecTagRace == InitTagRace /\ [][NextTagRace]_vars

----------------------------------------------------------------------------
(* Properties *)

Answered == req # NoRequest /\ resp # NoResponse

Range(s) == {s[i] : i \in DOMAIN s}

ErrorFields(errors) == {e[1] : e \in errors}

WriteMethods == {"POST", "PUT", "PATCH", "DELETE"}

\* the request reached the serializer: an authenticated create, or an
\* authenticated update of a stored book
Validated ==
    /\ req.auth
    /\ \/ req.view = "create"
       \/ req.view = "update" /\ req.pk \in BookIds

\* C1: the publication-year validator accepts a year y exactly when
\* 1450 <= y <= current year; a year above the current year is refused as
\* being in the future, a year below 1450 as unrealistic, and an accepted
\* year is stored and returned as it was submitted.
C1_ValidatorContract ==
    (Answered /\ Validated /\ req.data.publication_year # <<>>) =>
        LET y == req.data.publication_year[1]
        IN  /\ (<<"publication_year", "future">> \in resp.errors) <=> (y > current_year)
            /\ (<<"publication_year", "unrealistic">> \in resp.errors)
                   <=> (y < 1450 /\ y <= current_year)
            /\ ("publication_year" \notin ErrorFields(resp.errors))
                   <=> (1450 <= y /\ y <= current_year)
            /\ resp.errors = NoErrors =>
                   /\ resp.body[1].publication_year = y
                   /\ \E b \in books : b.id = resp.body[1].id /\ b.publication_year = y

\* a year at each limit was accepted: the current year by a create that
\* answered 201, with a book of 1450 already stored
C1_Witness ==
    /\ Answered /\ req.view = "create" /\ resp.status = 201
    /\ req.data.publication_year = <<current_year>>
    /\ \E b \in books : b.publication_year = 1450

\* C2: an unauthenticated POST, PUT, PATCH or DELETE to the create, update
\* and delete views is answered 403 and leaves the tables as they were.
C2_UnauthenticatedWriteRefused ==
    [][(Pending /\ ~req.auth /\ req.method \in WriteMethods /\ resp' # NoResponse)
          => (resp'.status = 403 /\ books' = books /\ authors' = authors
                /\ nextBookId' = nextBookId)]_vars

\* an unauthenticated DELETE of a stored book was answered 403 and the
\* book is still stored
C2_Witness ==
    /\ Answered /\ ~req.auth /\ req.view = "delete"
    /\ req.pk \in BookIds /\ resp.status = 403

\* C3: every stored book has 1450 <= publication_year <= current year.
C3_StoredYearsInRange ==
    \A b \in books : 1450 <= b.publication_year /\ b.publication_year <= current_year

\* after New Year, a book of the year 1450 and a book of the current year
\* are stored
C3_Witness ==
    /\ current_year = LastYear
    /\ \E b1, b2 \in books :
           b1.publication_year = 1450 /\ b2.publication_year = current_year

\* C4: deleting an author deletes the books of that author and no other
\* book, and every stored book refers to a stored author.
C4_CascadeDelete ==
    /\ [](\A b \in books : b.author \in AuthorIds)
    /\ [][authors' # authors =>
            \E a \in authors :
                /\ authors' = authors \ {a}
                /\ books' = {b \in books : b.author # a.id}]_vars

\* an author is gone and so is a book, while a book of the other author
\* is still stored
C4_Witness ==
    /\ Cardinality(authors) = 1
    /\ Cardinality(books) = 1
    /\ nextBookId = 3
    /\ Idle

\* the fields of an authenticated create or update that the claim names as
\* failing validation
Offending ==
    LET partial == req.method = "PATCH"
        d == req.data
    IN  (IF d.title = <<>> /\ ~partial THEN {"title"} ELSE {})
            \cup (IF (d.author = <<>> /\ ~partial)
                        \/ (d.author # <<>> /\ d.author[1] \notin AuthorIds)
                  THEN {"author"} ELSE {})
            \cup (IF d.publication_year # <<>>
                        /\ (d.publication_year[1] < 1450
                              \/ d.publication_year[1] > current_year)
                  THEN {"publication_year"} ELSE {})

\* C5: a create or update whose data fails validation (title missing,
\* author missing or unknown, publication year out of range) is answered 400
\* with an error under each offending field, and the tables stay as they were.
C5_InvalidDataRejected ==
    [][(Pending /\ Validated /\ Offending # {} /\ resp' # NoResponse)
          => /\ resp'.status = 400
             /\ Offending \subseteq ErrorFields(resp'.errors)
             /\ books' = books
             /\ nextBookId' = nextBookId]_vars

\* a PATCH of a stored book with a year in the future was answered 400
C5_Witness ==
    /\ Answered /\ req.auth /\ req.method = "PATCH" /\ req.pk \in BookIds
    /\ resp.status = 400
    /\ <<"publication_year", "future">> \in resp.errors

----------------------------------------------------------------------------
(* Properties of the list view, under SpecList *)

AnsweredList == Answered /\ req.view = "list"

\* the parameters the query string in flight was written from
Case == req.params

\* a query string of some of the parameters of c
FiltersOf(c) == Query(c.title, c.author, c.year, <<>>, <<>>)

SearchOf(c) == Query(<<>>, <<>>, <<>>, c.search, <<>>)

OrderOf(c) == Query(<<>>, <<>>, <<>>, <<>>, c.order)

\* the books of the bodies the list view may answer a query with
RowsOf(query) == {Range(body) : body \in ListBodies(query)}

TitlesAscend(body) ==
    \A i, j \in DOMAIN body : i < j => ~TextLess(body[j].title, body[i].title)

TitlesDescend(body) ==
    \A i, j \in DOMAIN body : i < j => ~TextLess(body[i].title, body[j].title)

YearsAscend(body) ==
    \A i, j \in DOMAIN body : i < j => body[i].publication_year <= body[j].publication_year

YearsDescend(body) ==
    \A i, j \in DOMAIN body : i < j => body[i].publication_year >= body[j].publication_year

EachOnce(body) == \A i, j \in DOMAIN body : i # j => body[i].id # body[j].id

\* C6: GET /books/ with no parameter answers every stored book once, by
\* title ascending, and the answers it may give are those of ?ordering=title
\* (the model's Meta ordering, newest first, is not the one applied).
C6_DefaultOrdering ==
    /\ Idle => ListBodies(<<>>) = ListBodies(Query(<<>>, <<>>, <<>>, <<>>, <<T_title>>))
    /\ (AnsweredList /\ req.query = <<>>) =>
           /\ resp.status = 200
           /\ Range(resp.body) = books
           /\ EachOnce(resp.body)
           /\ TitlesAscend(resp.body)

\* the plain listing answered two books, the older one first because of its
\* title
C6_Witness ==
    /\ AnsweredList /\ req.query = <<>> /\ Len(resp.body) = 2
    /\ TextLess(resp.body[1].title, resp.body[2].title)
    /\ resp.body[1].publication_year < resp.body[2].publication_year

\* the permutations of a query string
QueryPermutations(query) ==
    {[i \in DOMAIN query |-> query[p[i]]] :
        p \in {f \in [DOMAIN query -> DOMAIN query] :
                  \A i, j \in DOMAIN query : i # j => f[i] # f[j]}}

OccursIgnoringCase(text, s) ==
    \E i \in 0..(Len(text) - Len(s)) :
        \A k \in 1..Len(s) : LowerChar(text[i + k]) = LowerChar(s[k])

AuthorName(b) == (CHOOSE a \in authors : a.id = b.author).name

IsOneWord(s) == \A i \in 1..Len(s) : s[i] # 32 /\ s[i] # 44

\* C8: ?search=s answers, once each, every book whose title or whose
\* author's name contains s ignoring letter case (and for a one-word s no
\* other book); two terms that differ in letter case only answer the same
\* books.
C8_SearchIgnoresCase ==
    /\ AnsweredList =>
           LET c == Case
               s == c.search[1]
               hits == {b \in books :
                            \/ OccursIgnoringCase(b.title, s)
                            \/ OccursIgnoringCase(AuthorName(b), s)}
           IN  (c.search # <<>> /\ FiltersOf(c) = <<>>) =>
                   /\ resp.status = 200
                   /\ EachOnce(resp.body)
                   /\ hits \subseteq Range(resp.body)
                   /\ IsOneWord(s) => Range(resp.body) = hits
    /\ Idle =>
           \A s1, s2 \in SearchParams :
               (s1 # <<>> /\ s2 # <<>> /\ Lower(s1[1]) = Lower(s2[1])) =>
                   RowsOf(Query(<<>>, <<>>, <<>>, s1, <<>>))
                       = RowsOf(Query(<<>>, <<>>, <<>>, s2, <<>>))

\* ?search=B answered a book titled "Ab" of the author "C" and a book
\* titled "a" of the author "b"
C8_Witness ==
    /\ AnsweredList /\ req.query = Query(<<>>, <<>>, <<>>, <<<<66>>>>, <<>>)
    /\ \E i, j \in DOMAIN resp.body :
           /\ resp.body[i].title = <<65, 98>> /\ resp.body[i].author = 2
           /\ resp.body[j].title = <<97>> /\ resp.body[j].author = 1

\* C9: ?ordering=title and ?ordering=publication_year sort ascending by that
\* field, with a minus sign in front descending; an ordering parameter that
\* names no whitelisted field (author) leaves the answers those of the
\* default, by title ascending.
C9_OrderingWhitelist ==
    (AnsweredList /\ resp.status = 200) =>
        LET c == Case
            o == c.order[1]
        IN  c.order # <<>> =>
                /\ o = T_title => TitlesAscend(resp.body)
                /\ o = Desc(T_title) => TitlesDescend(resp.body)
                /\ o = T_publication_year => YearsAscend(resp.body)
                /\ o = Desc(T_publication_year) => YearsDescend(resp.body)
                /\ o = T_author =>
                       /\ TitlesAscend(resp.body)
                       /\ ListBodies(req.query)
                              = ListBodies(FiltersOf(c) \o SearchOf(c))

\* ?ordering=-publication_year answered two books of different years,
\* titles ascending the other way round
C9_Witness ==
    /\ AnsweredList
    /\ req.query = Query(<<>>, <<>>, <<>>, <<>>, <<Desc(T_publication_year)>>)
    /\ Len(resp.body) = 2
    /\ resp.body[1].publication_year > resp.body[2].publication_year
    /\ TextLess(resp.body[2].title, resp.body[1].title)

\* C10: the three stages compose: a request with filters, a search and an
\* ordering is answered 200 when the request with its filters alone is,
\* and then with the books that both the filters alone and the search
\* alone select, in the order the ordering alone gives them.
C10_StagesCompose ==
    AnsweredList =>
        LET c == Case
        IN  /\ (resp.status = 200) <=> (FilterErrors(FiltersOf(c)) = NoErrors)
            /\ resp.status = 200 =>
                   \E f \in RowsOf(FiltersOf(c)), g \in RowsOf(SearchOf(c)) :
                       /\ Range(resp.body) = f \cap g
                       /\ EachOnce(resp.body)
                       /\ \E all \in ListBodies(OrderOf(c)) :
                              resp.body = SelectSeq(all, LAMBDA b : b \in f \cap g)

\* a request with ?title=Ab, ?search=A c and ?ordering=-title answered one
\* book, while the filter alone selects a second, of the author "b"
C10_Witness ==
    /\ AnsweredList
    /\ req.query = Query(<<<<65, 98>>>>, <<>>, <<>>, <<<<65, 32, 99>>>>, <<Desc(T_title)>>)
    /\ Len(resp.body) = 1
    /\ \E b \in books : b.title = <<65, 98>> /\ b.author = 1

----------------------------------------------------------------------------
(* Properties of the read and write views, under Spec *)

\* a view answers the request in flight in this step
Serves == Pending /\ resp' # NoResponse

\* t is the text s without the white space in front of it and behind it
Trimmed(s, t) ==
    /\ t # <<>> => t[1] # 32 /\ t[Len(t)] # 32
    /\ \E i \in 0..(Len(s) - Len(t)) :
           /\ SubSeq(s, i + 1, i + Len(t)) = t
           /\ \A k \in 1..Len(s) : (k <= i \/ k > i + Len(t)) => s[k] = 32

\* the body in flight is one the claims call valid: every field it carries
\* is acceptable, and it carries every field unless the update is partial
ValidBody(partial) ==
    LET d == req.data
    IN  /\ d.title = <<>> => partial
        /\ d.title # <<>> =>
               /\ \E i \in 1..Len(d.title[1]) : d.title[1][i] # 32
               /\ Len(d.title[1]) <= 200
        /\ d.publication_year = <<>> => partial
        /\ d.publication_year # <<>> =>
               /\ 1450 <= d.publication_year[1]
               /\ d.publication_year[1] <= current_year
        /\ d.author = <<>> => partial
        /\ d.author # <<>> => d.author[1] \in AuthorIds

\* C16: a GET of the list or of one book is answered the same with and
\* without authentication: the listing with 200 and every stored book once
\* by title, the detail with 200 and the stored book or with 404 when no
\* book has the id; and a GET leaves the tables as they were.
C16_ReadsNeedNoAuthentication ==
    /\ []((Answered /\ req.method = "GET") =>
            IF req.view = "detail"
            THEN resp = IF req.pk \in BookIds
                        THEN Response(200, NoErrors, <<BookById(req.pk)>>)
                        ELSE Response(404, NoErrors, <<>>)
            ELSE /\ resp.status = 200
                 /\ Range(resp.body) = books
                 /\ EachOnce(resp.body)
                 /\ TitlesAscend(resp.body))
    /\ [][(Serves /\ req.method = "GET") =>
            (books' = books /\ authors' = authors /\ nextBookId' = nextBookId)]_vars

\* an unauthenticated GET of a stored book was answered 200 with the book
C16_Witness ==
    /\ Answered /\ ~req.auth /\ req.view = "detail" /\ req.pk \in BookIds
    /\ resp.status = 200 /\ resp.body = <<BookById(req.pk)>>

\* C17 as stated: an authenticated POST with valid data is answered 201 with
\* the title, year and author exactly as submitted, one book more is stored
\* and the books stored before are unchanged.
C17_CreateReturnsSubmitted ==
    [][(Serves /\ req.view = "create" /\ req.auth /\ ValidBody(FALSE)) =>
          /\ resp'.status = 201
          /\ resp'.body[1].title = req.data.title[1]
          /\ resp'.body[1].publication_year = req.data.publication_year[1]
          /\ resp'.body[1].author = req.data.author[1]
          /\ Cardinality(books') = Cardinality(books) + 1
          /\ books \subseteq books']_vars

\* C17, amended: an authenticated POST with valid data is answered 201 with
\* the submitted title without its leading and trailing white space and the
\* submitted year and author; that book is stored under an id no book had,
\* one book more is stored and the books stored before are unchanged.
C17_CreateReturnsTrimmed ==
    [][(Serves /\ req.view = "create" /\ req.auth /\ ValidBody(FALSE)) =>
          /\ resp'.status = 201
          /\ Trimmed(req.data.title[1], resp'.body[1].title)
          /\ resp'.body[1].publication_year = req.data.publication_year[1]
          /\ resp'.body[1].author = req.data.author[1]
          /\ resp'.body[1].id \notin BookIds
          /\ books' = books \cup {resp'.body[1]}
          /\ Cardinality(books') = Cardinality(books) + 1]_vars

\* a second book, submitted as " Ab", was created as "Ab"
C17_Witness ==
    /\ Answered /\ req.view = "create" /\ resp.status = 201
    /\ req.data.title = <<(<<32, 65, 98>>)>>
    /\ resp.body[1].title = <<65, 98>>
    /\ Cardinality(books) = 2

\* C18: an authenticated PATCH with valid data of a stored book is answered
\* 200; the book keeps its id and every field the body does not carry, takes
\* the value of every field the body carries (the title without surrounding
\* white space), no other book changes, and a GET of the book answers the
\* stored values.
C18_PatchChangesGivenFields ==
    /\ [][(Serves /\ req.view = "update" /\ req.method = "PATCH" /\ req.auth
              /\ req.pk \in BookIds /\ ValidBody(TRUE)) =>
            /\ resp'.status = 200
            /\ \E new \in books' :
                 LET old == BookById(req.pk)
                     d == req.data
                 IN  /\ new.id = req.pk
                     /\ books' \ {new} = books \ {old}
                     /\ resp'.body = <<new>>
                     /\ IF d.title = <<>> THEN new.title = old.title
                        ELSE Trimmed(d.title[1], new.title)
                     /\ new.publication_year =
                            IF d.publication_year = <<>> THEN old.publication_year
                            ELSE d.publication_year[1]
                     /\ new.author = IF d.author = <<>> THEN old.author
                                     ELSE d.author[1]]_vars
    /\ []((Answered /\ req.view = "detail" /\ req.pk \in BookIds) =>
            resp.body = <<BookById(req.pk)>>)

\* a PATCH that carries the year alone was answered 200: the book has the
\* new year and another title than the body of a full update would need
C18_Witness ==
    /\ Answered /\ req.method = "PATCH" /\ resp.status = 200
    /\ req.data.title = <<>> /\ req.data.author = <<>>
    /\ req.data.publication_year = <<current_year>>
    /\ BookById(req.pk).publication_year = current_year
    /\ Cardinality(books) = 2

\* C19: an authenticated DELETE of a stored book is answered 204 and removes
\* that book and no other: one book fewer is stored, and every other book
\* and every author is as before.
C19_DeleteRemovesOne ==
    [][(Serves /\ req.view = "delete" /\ req.auth /\ req.pk \in BookIds) =>
          /\ resp'.status = 204
          /\ books' = books \ {BookById(req.pk)}
          /\ Cardinality(books') = Cardinality(books) - 1
          /\ authors' = authors]_vars

\* a DELETE was answered 204 and a book is still stored
C19_Witness ==
    /\ Answered /\ req.view = "delete" /\ req.auth /\ resp.status = 204
    /\ req.pk \notin BookIds
    /\ Cardinality(books) = 1

\* the id was given to a book that is no longer stored
Deleted(pk) == pk >= 1 /\ pk < nextBookId /\ pk \notin BookIds

----------------------------------------------------------------------------
(* Properties of relationship_app *)

\* C11: every user has exactly one profile; the profile that comes with a
\* new user has the role Member; a save of an existing user adds no profile;
\* and a deleted user's profile goes with it (no profile without its user).
C11_OneProfilePerUser ==
    /\ [](/\ \A u \in users : Cardinality(ProfilesOf(profiles, u.id)) = 1
          /\ \A p \in profiles : p.user \in UserIds)
    /\ [][/\ \A u \in users' :
               u \notin users =>
                   \E p \in profiles' :
                       /\ ProfilesOf(profiles', u.id) = {p}
                       /\ p.role = "Member"
                       /\ p \notin profiles
          /\ users' = users => Cardinality(profiles') = Cardinality(profiles)
          /\ \A u \in users :
               u \notin users' =>
                   profiles' = {p \in profiles : p.user # u.id}]_vars

\* the first user logged in again after its role was changed and has the one
\* profile it had; the second was deleted, the third has its profile
C11_Witness ==
    /\ UserIds = {1, 3}
    /\ profiles = {[id |-> 1, user |-> 1, role |-> "Admin"],
                   [id |-> 3, user |-> 3, role |-> "Member"]}

\* the role a gated view asks for, and the page it renders
RoleOf(view) ==
    IF view = "admin_view" THEN "Admin"
    ELSE IF view = "librarian_view" THEN "Librarian" ELSE "Member"

PageOf(view) ==
    IF view = "admin_view" THEN "relationship_app/admin_view.html"
    ELSE IF view = "librarian_view" THEN "relationship_app/librarian_view.html"
    ELSE "relationship_app/member_view.html"

\* C12: a gated view renders its page exactly when the requester is a user,
\* has a profile, and the role of the profile is the view's; every other
\* request is redirected to the login URL and no page is rendered.
C12_RoleGate ==
    (req # NoRequest /\ resp # NoResponse) =>
        LET allowed == /\ req.user \in UserIds
                       /\ \E p \in profiles :
                              p.user = req.user /\ p.role = RoleOf(req.view)
        IN  /\ (resp.status = 200) <=> allowed
            /\ allowed => resp.template = PageOf(req.view)
            /\ ~allowed =>
                   /\ resp.status = 302
                   /\ resp.location = "/login/"
                   /\ resp.template = ""

\* a user whose profile has the role Admin asked for the librarian page and
\* was redirected to the login URL
C12_Witness ==
    /\ req # NoRequest /\ resp # NoResponse
    /\ req.view = "librarian_view"
    /\ \E p \in profiles : p.user = req.user /\ p.role = "Admin"
    /\ resp.status = 302 /\ resp.location = "/login/"

\* the rows of the view set the request in flight goes to
TargetRows == IF req.view = "posts" THEN posts ELSE comments

\* the object the request in flight names
TargetObject == CHOOSE x \in TargetRows : x.id = req.pk

\* the request in flight names a stored object of its view set
Addressed == req.pk \in {x.id : x \in TargetRows}

\* C13: the author of a post or comment never changes: a row that appears
\* was created by a POST of an authenticated user and carries that user as
\* author whatever author the body names, and every row that stays, after
\* any request of any user, keeps the author it had.
C13_AuthorImmutable ==
    [][/\ \A x \in posts' :
            IF x.id \in PostIds THEN x.author = PostById(x.id).author
            ELSE /\ Pending /\ req.view = "posts" /\ req.method = "POST"
                 /\ IsAuthenticated(req.user)
                 /\ x.author = req.user
       /\ \A x \in comments' :
            IF x.id \in CommentIds THEN x.author = CommentById(x.id).author
            ELSE /\ Pending /\ req.view = "comments" /\ req.method = "POST"
                 /\ IsAuthenticated(req.user)
                 /\ x.author = req.user]_vars

\* account 2, the author of a post, has updated it with a body that names
\* account 1 as author, and the post is still of account 2
C13_Witness ==
    /\ Answered /\ req.view = "posts" /\ req.method \in {"PUT", "PATCH"}
    /\ resp.status = 200
    /\ req.user = 2
    /\ req.data.author = <<1>>
    /\ PostById(req.pk).author = 2
    /\ \E c \in comments : c.author = 1

\* C14: a PUT, PATCH or DELETE on a stored post or comment succeeds or
\* changes a table only when the requesting user is the author of the
\* object; from an authenticated user who is not, it is answered 403 and
\* posts and comments stay as they are; a GET on the object is answered 200
\* with the object to every authenticated user, and refused (401 or 403,
\* no object) to an anonymous one.
C14_OnlyAuthorWrites ==
    [][(Serves /\ req.method # "POST" /\ Addressed) =>
        LET owner == TargetObject.author = req.user IN
        /\ req.method \in {"PUT", "PATCH", "DELETE"} =>
            /\ (resp'.status \in {200, 204} \/ posts' # posts \/ comments' # comments)
                    => owner
            /\ (IsAuthenticated(req.user) /\ ~owner) =>
                    /\ resp'.status = 403
                    /\ UNCHANGED <<posts, comments>>
        /\ req.method = "GET" =>
            /\ UNCHANGED <<posts, comments>>
            /\ IF IsAuthenticated(req.user)
               THEN resp'.status = 200 /\ resp'.body = <<TargetObject>>
               ELSE resp'.status \in {401, 403} /\ resp'.body = <<>>]_vars

\* an account that is not the author of a stored comment asked to delete it
\* and was refused
C14_Witness ==
    /\ Answered /\ req.view = "comments" /\ req.method = "DELETE"
    /\ Addressed
    /\ IsAuthenticated(req.user)
    /\ TargetObject.author # req.user
    /\ resp.status = 403

\* the answered calls of a view
Done(view, status) ==
    {w \in Workers : calls[w].view = view /\ calls[w].pc = "done"
                        /\ calls[w].resp.status = status}

\* the key a call was answered with
KeyOf(w) == calls[w].resp.body[1].token

\* the account the call of w names, with the password it gives
Credited(w) ==
    {a \in accounts :
        /\ a.username = Strip(calls[w].data.username[1])
        /\ check_password(Strip(calls[w].data.password[1]), a.password)}

\* C15: in every state that registrations, logins and admin additions of
\* users reach in any order and interleaving, each user has at most one
\* token; a registration answered 201 has inserted one user, which carries
\* the name and password of the request, and one token for it, and the
\* response gives the key of that token; a login is answered 200 only for
\* the user whose name and password it gives, with the key of that user's
\* token; two logins of one user are answered with the same key, and no
\* step removes a token or changes its key, so every later login gets that
\* key again.
C15_OneTokenPerUser ==
    /\ [](/\ \A a \in accounts : Cardinality(TokensOf(a.id)) <= 1
          /\ \A t \in tokens : t.user \in AccountIds
          /\ \A w \in Done("register", 201) :
                /\ Credited(w) = {AccountById(calls[w].user)}
                /\ TokensOf(calls[w].user) = {[key |-> KeyOf(w), user |-> calls[w].user]}
                /\ calls[w].resp.body[1].id = calls[w].user
          /\ \A w \in Done("login", 200) :
                /\ Credited(w) = {AccountById(calls[w].user)}
                /\ TokensOf(calls[w].user) = {[key |-> KeyOf(w), user |-> calls[w].user]}
          /\ \A v, w \in Done("login", 200) :
                calls[v].user = calls[w].user => KeyOf(v) = KeyOf(w))
    /\ [][/\ tokens \subseteq tokens'
          /\ accounts \subseteq accounts'
          /\ \A w \in Workers :
                (calls[w].view = "register" /\ calls'[w] # calls[w]
                    /\ calls[w].pc # "done") =>
                    /\ Cardinality(accounts') <= Cardinality(accounts) + 1
                    /\ Cardinality(tokens') <= Cardinality(tokens) + 1
                    /\ calls'[w].user # calls[w].user =>
                            /\ calls[w].user = 0
                            /\ calls'[w].user \in AccountIds' \ AccountIds
                    /\ tokens' # tokens =>
                            tokens' \ tokens \subseteq
                                {t \in tokens' : t.user = calls[w].user}]_vars

\* two logins of a user the admin site added, who had no token, were served
\* side by side and both answered, and a registration was answered 201
C15_Witness ==
    /\ \E v, w \in Done("login", 200) : v # w /\ calls[v].user = calls[w].user
    /\ \E t \in tokens : \E a \in accounts : t.user = a.id /\ a.email = <<>>
    /\ Cardinality(tokens) = 2

\* C21: a GET of the detail view, or an authenticated PUT, PATCH or DELETE,
\* for an id no stored book has (never given, or of a deleted book) is
\* answered 404 with no body, whatever the request body holds, and books
\* and authors stay as they are.
C21_UnknownIdIs404 ==
    [][(/\ Serves
        /\ req.pk \notin BookIds
        /\ \/ req.view = "detail"
           \/ req.auth /\ req.view \in {"update", "delete"}) =>
          /\ resp' = Response(404, NoErrors, <<>>)
          /\ books' = books
          /\ authors' = authors]_vars

\* an authenticated update with a body that would not validate, for an id
\* never given to a book, was answered 404 while a book is stored
C21_Witness ==
    /\ Answered /\ req.view = "update" /\ req.auth
    /\ req.pk >= nextBookId
    /\ SerializerErrors(req.data, req.method = "PATCH") # NoErrors
    /\ resp.status = 404
    /\ books # {}

\* C22: ?author=A alone, when no stored book has author A, is answered 200
\* with an empty list, both when A is the id of a stored author and when
\* no author has the id A; it is never an error response.
C22_AuthorFilterAnswersEmpty ==
    AnsweredList =>
        LET c == Case
        IN  (/\ c.author # <<>> /\ c.title = <<>> /\ c.year = <<>>
             /\ c.search = <<>> /\ c.order = <<>>
             /\ \A b \in books : <<ToDigits(b.author)>> # c.author) =>
                /\ resp.status = 200
                /\ resp.body = <<>>

\* C23: a search term with spaces in it is answered 200 with, among its
\* books, every stored book whose title contains the whole term when the
\* letter case is ignored; an empty search term is answered as the request
\* with no search parameter is: the same lists are possible, and the one
\* given holds every stored book.
C23_SearchWithSpaces ==
    AnsweredList =>
        LET c == Case
        IN  (c.search # <<>> /\ FiltersOf(c) = <<>> /\ c.order = <<>>) =>
                /\ resp.status = 200
                /\ EachOnce(resp.body)
                /\ (~IsOneWord(c.search[1])) =>
                       {b \in books : OccursIgnoringCase(b.title, c.search[1])}
                           \subseteq Range(resp.body)
                /\ c.search[1] = <<>> =>
                       /\ ListBodies(req.query) = ListBodies(<<>>)
                       /\ resp.body \in ListBodies(<<>>)
                       /\ Range(resp.body) = books

\* ?search=A c answered the book titled "a C" and not the book titled "b"
C23_Witness ==
    /\ AnsweredList /\ Case.search = <<<<65, 32, 99>>>>
    /\ \E b \in books : b.title = <<98>>
    /\ \E i \in DOMAIN resp.body : resp.body[i].title = <<97, 32, 67>>
    /\ \A i \in DOMAIN resp.body : resp.body[i].title # <<98>>

\* C24: in every reachable state a library has at most one librarian and
\* every librarian belongs to a stored library; a step that deletes a
\* library removes that library alone, its librarian and every book of its
\* inventory, and leaves every librarian and book of another library (or of
\* none) as it was.
C24_LibraryOwnsLibrarian ==
    /\ [](/\ \A pk \in libraries : Cardinality(LibrariansOf(pk)) <= 1
          /\ \A l \in librarians : l.library \in libraries)
    /\ [][\A pk \in libraries \ libraries' :
            /\ libraries' = libraries \ {pk}
            /\ librarians' = {l \in librarians : l.library # pk}
            /\ library_books' = {b \in library_books : b.library # pk}]_vars

\* library 1 was deleted with its librarian and its book; library 2, its
\* librarian and its book are stored
C24_Witness ==
    /\ libraries = {2}
    /\ nextLibrarianId > 2 /\ nextLibraryBookId > 2
    /\ \E l \in librarians : l.library = 2
    /\ Cardinality(librarians) = 1
    /\ \E b \in library_books : b.library = 2
    /\ \A b \in library_books : b.library # 1

\* the answered registrations
Registered == {w \in Workers : calls[w].view = "register" /\ calls[w].pc = "done"}

\* C25 as claimed: a registration whose password and password_confirm
\* differ is answered 400 with an error on password and has created no
\* user.
C25_MismatchIsPasswordError ==
    \A w \in Registered :
        (/\ calls[w].data.password # <<>>
         /\ calls[w].data.password_confirm # <<>>
         /\ calls[w].data.password # calls[w].data.password_confirm) =>
            /\ calls[w].resp.status = 400
            /\ "password" \in ErrorFields(calls[w].resp.errors)
            /\ calls[w].user = 0

\* C25: a registration whose password and password_confirm differ once
\* the white space around them is removed is answered 400 and inserts
\* neither a user nor a token, and the error is the one on password unless
\* another field is in error; after every answered registration the
\* request has inserted no user, or its user is stored and has a token; a
\* registration that has inserted no user has changed no table.
C25_UserAndTokenOrNeither ==
    /\ [](\A w \in Registered :
            /\ (/\ calls[w].data.password # <<>>
                /\ calls[w].data.password_confirm # <<>>
                /\ Strip(calls[w].data.password[1])
                        # Strip(calls[w].data.password_confirm[1])) =>
                    /\ calls[w].resp.status = 400
                    /\ calls[w].user = 0
                    /\ \/ calls[w].resp.errors = {<<"password", "mismatch">>}
                       \/ ErrorFields(calls[w].resp.errors)
                              \subseteq {"username", "email"}
            /\ calls[w].resp.status = 400 => calls[w].user = 0
            /\ \/ calls[w].user = 0
               \/ /\ calls[w].user \in AccountIds
                  /\ TokensOf(calls[w].user) # {})
    /\ [][\A w \in Workers :
            (/\ calls[w].view = "register"
             /\ calls'[w] # calls[w]
             /\ calls'[w].user = 0) =>
                /\ accounts' = accounts
                /\ tokens' = tokens]_vars

\* a registration with passwords "p" and "q" was answered 400 with the
\* error on password alone, while another user is stored
C25_Witness ==
    \E w \in Registered :
        /\ calls[w].data.password = <<<<112>>>>
        /\ calls[w].data.password_confirm = <<<<113>>>>
        /\ calls[w].resp.status = 400
        /\ calls[w].resp.errors = {<<"password", "mismatch">>}
        /\ accounts # {}
        /\ AccountsNamed(<<98>>) = {}

\* C26: a login that gives a username and a password which are not those
\* of a stored user is answered 401 with the error 'Invalid credentials'
\* and no body, and one that lacks the username or the password is
\* answered 400 with errors on the fields that lack; either is the end of
\* the request, no user was looked up for it, and users and tokens are as
\* they were.
C26_FailedLoginChangesNothing ==
    /\ [][\A w \in Workers :
            (/\ calls[w].view = "login" /\ calls[w].pc = "is_valid"
             /\ calls'[w] # calls[w]) =>
                LET d == calls[w].data
                    lacks == d.username = <<>> \/ d.password = <<>>
                IN  /\ lacks =>
                        /\ calls'[w].resp.status = 400
                        /\ ErrorFields(calls'[w].resp.errors) =
                               {f \in {"username", "password"} : d[f] = <<>>}
                        /\ calls'[w].resp.body = <<>>
                    /\ (~lacks /\ Credited(w) = {}) =>
                        calls'[w].resp = Response(401, InvalidCredentials, <<>>)
                    /\ (lacks \/ Credited(w) = {}) =>
                        /\ calls'[w].pc = "done"
                        /\ calls'[w].user = 0
                        /\ accounts' = accounts
                        /\ tokens' = tokens
                        /\ nextTokenKey' = nextTokenKey]_vars
    /\ [](\A w \in Workers :
            (calls[w].view = "login" /\ calls[w].resp.status \in {400, 401}) =>
                /\ calls[w].pc = "done"
                /\ calls[w].user = 0
                /\ calls[w].resp.body = <<>>)

\* a login with the name of a stored user that has a token and with a
\* password that is not the user's was answered 401
C26_Witness ==
    \E w \in Workers :
        /\ calls[w].view = "login" /\ calls[w].pc = "done"
        /\ calls[w].resp = Response(401, InvalidCredentials, <<>>)
        /\ \E a \in AccountsNamed(Strip(calls[w].data.username[1])) :
               TokensOf(a.id) # {}

\* C29: a profile request of an authenticated user leaves the row of every
\* other user as it was and keeps the id, the username and date_joined of
\* the requester, whatever the body names; the body of its answer is made
\* of the requester's id, username, email, bio and date_joined as they are
\* stored after the request; an anonymous request changes nothing and is
\* answered with no body.
C29_OwnProfileOnly ==
    [][(Serves /\ req.view = "profile") =>
        /\ \A b \in accounts : b.id # req.user => b \in accounts'
        /\ {b.id : b \in accounts'} = AccountIds
        /\ IsAuthenticated(req.user) =>
              LET before == AccountById(req.user)
                  after == CHOOSE a \in accounts' : a.id = req.user
              IN  /\ after.username = before.username
                  /\ after.date_joined = before.date_joined
                  /\ after.password = before.password
                  /\ resp'.status \in {200, 400}
                  /\ resp'.status = 400 => after = before /\ resp'.body = <<>>
                  /\ resp'.status = 200 =>
                        resp'.body = <<[id |-> req.user,
                                        username |-> before.username,
                                        email |-> after.email,
                                        bio |-> after.bio,
                                        date_joined |-> before.date_joined]>>
        /\ ~IsAuthenticated(req.user) =>
              /\ accounts' = accounts
              /\ resp'.body = <<>>]_vars

\* account 1 sent a PUT whose body names the id, the username and the
\* date_joined of account 2; it was answered 200 with the profile of
\* account 1, whose e-mail address and bio are now those of the body, and
\* account 2 is as it was at the start
C29_Witness ==
    /\ Answered /\ req.view = "profile" /\ req.method = "PUT"
    /\ req.user = 1 /\ req.data.id = <<2>>
    /\ resp.status = 200
    /\ resp.body[1].id = 1 /\ resp.body[1].username = <<97>>
    /\ resp.body[1].bio = <<104>>
    /\ AccountById(2) \in ProfileAccounts

----------------------------------------------------------------------------
(* Properties of the delete_book views, under SpecDelete *)

\* the permission the view of the request in flight requires
RequiredPermission ==
    IF req.view = "bookshelf.delete_book" THEN "relationship_app.can_delete"
    ELSE "relationship_app.can_delete_book"

\* the table the view of the request in flight deletes from
DeleteTable ==
    IF req.view = "bookshelf.delete_book" THEN bookshelf_books ELSE library_books

\* C28: the delete_book views delete only on POST.  A request of a user who
\* lacks the permission of the view is refused, with 403 by bookshelf and
\* with a redirect to the login page by relationship_app, and no table
\* changes.  A request of a user who holds it, for a stored book, with a
\* method other than POST is answered with the confirmation page and no
\* table changes; with POST the addressed book, and no other row of either
\* table, is removed.  For an id no book has the answer is 404, and no
\* table changes.
C28_DeleteOnlyOnPost ==
    [][ (Pending /\ resp' # NoResponse
            /\ req.view \in {"bookshelf.delete_book", "relationship_app.delete_book"})
        => LET shelf == req.view = "bookshelf.delete_book"
               held == req.user # AnonymousUser /\ RequiredPermission \in req.perms
               found == {b \in DeleteTable : b.id = req.pk}
               same == /\ bookshelf_books' = bookshelf_books
                       /\ library_books' = library_books
           IN  /\ libraries' = libraries /\ librarians' = librarians
               /\ ~held =>
                     /\ same
                     /\ shelf => resp'.status = 403
                     /\ ~shelf => /\ resp'.status = 302
                                  /\ resp'.location = login_url
               /\ held /\ found = {} => same /\ resp'.status = 404
               /\ held /\ found # {} /\ req.method # "POST" =>
                     /\ same
                     /\ resp'.status = 200
                     /\ resp'.template =
                            IF shelf THEN "relationship_app/delete_confirm.html"
                            ELSE "relationship_app/delete_book.html"
               /\ held /\ found # {} /\ req.method = "POST" =>
                     /\ Cardinality(found) = 1
                     /\ IF shelf
                        THEN /\ bookshelf_books' = bookshelf_books \ found
                             /\ library_books' = library_books
                        ELSE /\ library_books' = library_books \ found
                             /\ bookshelf_books' = bookshelf_books
      ]_vars

\* a permitted POST to bookshelf has removed book 1 and left book 2, and a
\* book of relationship_app was removed before
C28_Witness ==
    /\ req.view = "bookshelf.delete_book" /\ req.method = "POST"
    /\ req.user # AnonymousUser /\ "relationship_app.can_delete" \in req.perms
    /\ req.pk = 1
    /\ resp # NoResponse /\ resp.status \notin {403, 404}
    /\ bookshelf_books = {bookshelf_Book(2)}
    /\ Cardinality(library_books) = MaxShelfBooks - 1

----------------------------------------------------------------------------
(* Properties of PostForm.save, under SpecTags and SpecTagRace *)

\* { lowercase(strip(n)) : n a comma-separated piece of t, strip(n) non-empty }
NormalizedTags(t) ==
    LET pieces == SplitOn(t, 44)
    IN  {Lower(Strip(pieces[i])) : i \in {j \in 1..Len(pieces) : Strip(pieces[j]) # <<>>}}

\* the names of the tags of a post
TagNamesOf(rows, table, post) ==
    {t.name : t \in {u \in table : [post |-> post, tag |-> u.id] \in rows}}

\* C27: after PostForm.save(commit=True) with the tags input t, the names of
\* the post's tags are exactly the lower-cased stripped non-empty pieces of
\* t between commas, whatever tags the post had before: none when t is
\* empty or holds separators and blanks only.  The tags of the other posts
\* stay, every row of Post.tags names a stored tag, and no two Tag rows
\* ever have the same name.
C27_TagsAreNormalizedInput ==
    /\ [](\A t, u \in blog_tags : t.name = u.name => t = u)
    /\ [](\A r \in post_tags : \E t \in blog_tags : t.id = r.tag)
    /\ [][ (Pending /\ req.view = "PostForm.save" /\ resp' # NoResponse)
           => /\ TagNamesOf(post_tags', blog_tags', req.post)
                    = NormalizedTags(req.tags)
              /\ {r \in post_tags' : r.post = req.post}
                    = {[post |-> req.post, tag |-> t.id] :
                          t \in {u \in blog_tags' : u.name \in NormalizedTags(req.tags)}}
              /\ (\A i \in 1..Len(req.tags) : req.tags[i] \in {32, 44})
                    => {r \in post_tags' : r.post = req.post} = {}
              /\ {r \in post_tags' : r.post # req.post}
                    = {r \in post_tags : r.post # req.post}
              /\ blog_tags \subseteq blog_tags'
         ]_vars

\* post 1, tagged before with "c" and "b", has been saved with "A, b" and
\* is tagged with "a" and "b", while post 2 keeps "c"
C27_Witness ==
    /\ req # NoRequest /\ req.view = "PostForm.save" /\ resp # NoResponse
    /\ req.post = 1 /\ req.tags = <<65, 44, 32, 98>>
    /\ TagNamesOf(post_tags, blog_tags, 1) = {<<97>>, <<98>>}
    /\ TagNamesOf(post_tags, blog_tags, 2) = {<<99>>}
    /\ \E t \in blog_tags : t.name = <<98>> /\ t.id < (CHOOSE u \in blog_tags : u.name = <<97>>).id

\* C30 as stated: when two PostForm.save calls for the same post with the
\* tag lists T1 and T2 have run side by side and both have returned, the
\* names of the post's tags are the normalized T1 or the normalized T2.
C30_SavesSerialize ==
    \A v, w \in Workers :
        (v # w /\ saves[v].pc = "done" /\ saves[w].pc = "done"
             /\ saves[v].post = saves[w].post)
        => TagNamesOf(post_tags, blog_tags, saves[v].post)
               \in {NormalizedTags(saves[v].tags), NormalizedTags(saves[w].tags)}

====
